---------------------------- MODULE Spec2Model ----------------------------
(***************************************************************************)
(* Croc execution core: the serialization library (module serialization),  *)
(* CrocValue equality, truthiness and hashing and CrocThread states        *)
(* (croc/types.d), the module loader (module modules) and the streams      *)
(* (module stream).                                                        *)
(*                                                                         *)
(* A Croc int is modelled at its full width as the set of the positions of *)
(* its one-bits (two's complement, bit 0 least significant), so that       *)
(* shifts, masks and sign extension behave as on the machine.              *)
(***************************************************************************)
EXTENDS Integers, Naturals, Sequences, FiniteSets, TLC

VARIABLES
    pc,        \* position of the driving script
    wbuild,    \* build parameters of the VM that writes  (Endianness, PlatformBits, intSize, floatSize, SerialVersion)
    rbuild,    \* build parameters of the VM that reads
    out,       \* the bytes held by the stream
    ivals,     \* ints handed to Serializer._integer, in order
    nwritten,  \* how many of ivals were written
    dPos,      \* read position of the stream
    ires,      \* results of Deserializer._integer, in order
    va,        \* CrocValue: this
    vb,        \* CrocValue: other
    eqRes,     \* result of va.opEquals(vb), <<>> before the call
    falseRes,  \* result of va.isFalse(), <<>> before the call
    hashRes,   \* results of va.toHash() and vb.toHash(), <<>> before the call
    heap,      \* the objects of the VM, by address 1 .. Len(heap)
    trans,     \* the transients table handed to serializeGraph
    root,      \* the value handed to serializeGraph
    ser,       \* the Serializer after writeGraph
    des,       \* the Deserializer after readGraph
    mres,      \* the outcome of serializeModule / deserializeModule
    threads,   \* the CrocThreads of the VM, by id 1 .. Len(threads)
    callers,   \* the threads waiting on a resume, outermost first
    cur,       \* the thread that is executing
    thrRes,    \* the outcome of the last thread operation
    loaded,    \* modules.loaded: module name -> namespace
    Loading,   \* modules' Loading: names whose load is in progress
    Prefixes,  \* modules' Prefixes: proper prefixes of the loaded names
    globals,   \* the namespaces of the VM, by address; address 1 is _G
    frames,    \* the top-level functions being run by initModule, outermost first
    modRes,    \* the outcome of the last modules.load / modules.reload
    ncalls,    \* how many calls of modules.load / modules.reload were made
    strm,      \* the stream being read
    dest,      \* the memblock m handed to read
    rdRes,     \* the outcome of the last read
    srcStrm,   \* the stream s that copy reads from
    got        \* the bytes the reads of strm returned so far, in order

intVars == <<ivals, nwritten, ires>>
valVars == <<va, vb, eqRes, falseRes, hashRes>>
graphVars == <<heap, trans, root, ser, des, mres>>
thrVars == <<threads, callers, cur, thrRes>>
modVars == <<loaded, Loading, Prefixes, globals, frames, modRes, ncalls>>
strVars == <<strm, dest, rdRes, srcStrm, got>>
libVars == <<thrVars, modVars, strVars>>
coreVars == <<pc, wbuild, rbuild, out, dPos, intVars, valVars, graphVars>>
vars == <<pc, wbuild, rbuild, out, dPos, ivals, nwritten, ires, va, vb, eqRes, falseRes, hashRes,
          heap, trans, root, ser, des, mres, libVars>>

-----------------------------------------------------------------------------
(* Sequencing *)

\* one statement after another: the outcome r of a statement is handed to
\* the statements K that follow it
Then(r, K(_)) == K(r)

-----------------------------------------------------------------------------
(* Build parameters *)

\* math.intSize of the stock implementation: crocint is 64 bits
intSize == 8
\* math.floatSize of the stock implementation: crocfloat is a double
floatSize == 8
\* This gets bumped any time the serialization format changes.
SerialVersion == 2

StockBuild(endian, bits) ==
    [Endianness |-> endian, PlatformBits |-> bits, intSize |-> intSize,
     floatSize |-> floatSize, SerialVersion |-> SerialVersion]

IntBitSize(b) == b.intSize * 8

NativeBuild == StockBuild(0, 64)

-----------------------------------------------------------------------------
(* Croc ints as bit sets *)

Bits(w) == 0 .. (w - 1)

Pow2(n) == IF n = 0 THEN 1 ELSE IF n = 1 THEN 2 ELSE IF n = 2 THEN 4
           ELSE IF n = 3 THEN 8 ELSE IF n = 4 THEN 16 ELSE IF n = 5 THEN 32
           ELSE IF n = 6 THEN 64 ELSE 128

\* the unsigned number held by bits 0..7 of a bit set
ByteOf(s) ==
    LET bit(i) == IF i \in s THEN Pow2(i) ELSE 0
    IN bit(0) + bit(1) + bit(2) + bit(3) + bit(4) + bit(5) + bit(6) + bit(7)

\* the bit set of a byte 0..255
BitsOfByte(b) == {i \in 0..7 : (b \div Pow2(i)) % 2 = 1}

\* v & 0x7F, as a number
Low7(v) == ByteOf(v \cap (0..6))

\* v >> 7 on a signed int of width w (arithmetic shift)
Sar7(v, w) ==
    {i - 7 : i \in {j \in v : j >= 7}}
        \cup (IF (w - 1) \in v THEN (w - 7) .. (w - 1) ELSE {})

\* (b & 0x7F) << shift, truncated to width w
Shl(b, shift, w) ==
    {i + shift : i \in (BitsOfByte(b) \cap (0..6))} \cap Bits(w)

\* -(1 << shift), for shift < w
NegPow(shift, w) == shift .. (w - 1)

Zero == {}
MinusOne(w) == Bits(w)

\* the Croc int of a small model integer n, -2^7 <= n < 2^7
RECURSIVE NatBits(_, _)
NatBits(n, i) ==
    IF n = 0 THEN {}
    ELSE (IF n % 2 = 1 THEN {i} ELSE {}) \cup NatBits(n \div 2, i + 1)

ToInt(n, w) ==
    IF n >= 0 THEN NatBits(n, 0) ELSE Bits(w) \ NatBits(-n - 1, 0)

-----------------------------------------------------------------------------
(* Serializer._integer / Deserializer._integer *)

\* (b & 0x40) != 0
Bit40(b) == (b \div 64) % 2 = 1

\* Serializer._integer: the bytes written for the int v of width w
RECURSIVE SInteger(_, _)
SInteger(v, w) ==
    LET b == Low7(v)
        v2 == Sar7(v, w)
        more == ~((v2 = Zero /\ ~Bit40(b)) \/ (v2 = MinusOne(w) /\ Bit40(b)))
    IN IF more THEN <<b + 128>> \o SInteger(v2, w) ELSE <<b>>

\* faulty variant: the sign is never extended
RECURSIVE DIntLoopNoSignExtend(_, _, _, _, _)
DIntLoopNoSignExtend(inp, pos, ret, shift, w) ==
    IF shift >= w THEN [val |-> Zero, pos |-> pos, err |-> "ValueError"]
    ELSE IF pos >= Len(inp) THEN [val |-> Zero, pos |-> pos, err |-> "EOFException"]
    ELSE LET b == inp[pos + 1]
             ret2 == ret \cup Shl(b, shift, w)
         IN IF b < 128
            THEN [val |-> ret2, pos |-> pos + 1, err |-> ""]
            ELSE DIntLoopNoSignExtend(inp, pos + 1, ret2, shift + 7, w)

\* Deserializer._integer: reads from inp at position pos (0-based count of
\* consumed bytes); _uint8 throws EOFException through readExact at the end
RECURSIVE DIntLoop(_, _, _, _, _)
DIntLoop(inp, pos, ret, shift, w) ==
    IF shift >= w THEN [val |-> Zero, pos |-> pos, err |-> "ValueError"]
    ELSE IF pos >= Len(inp) THEN [val |-> Zero, pos |-> pos, err |-> "EOFException"]
    ELSE LET b == inp[pos + 1]
             ret2 == ret \cup Shl(b, shift, w)
             shift2 == shift + 7
         IN IF b < 128
            THEN [val |-> IF shift2 < w /\ Bit40(b)
                          THEN ret2 \cup NegPow(shift2, w) ELSE ret2,
                  pos |-> pos + 1, err |-> ""]
            ELSE DIntLoop(inp, pos + 1, ret2, shift2, w)

DInteger(inp, pos, w) == DIntLoop(inp, pos, Zero, 0, w)

-----------------------------------------------------------------------------
(* CrocValue (croc/types.d) *)

\* CrocValue.Type
TNull == 0
TBool == 1
TInt == 2
TFloat == 3
TNativeObj == 4
TString == 5
TWeakRef == 6
TTable == 7
TNamespace == 8
TArray == 9
TMemblock == 10
TFunction == 11
TFuncDef == 12
TClass == 13
TInstance == 14
TThread == 15
TUpvalue == 16
FirstGCType == TNativeObj
FirstRefType == TTable

\* crocfloat is an IEEE-754 double: sign, biased exponent, mantissa
ExpMax == 2047
ExpBias == 1023
Float(sign, exp, man) == [sign |-> sign, exp |-> exp, man |-> man]
IsNaN(f) == f.exp = ExpMax /\ f.man # 0
IsZeroFloat(f) == f.exp = 0 /\ f.man = 0
\* the == of the host on two doubles
FloatEq(f, g) ==
    /\ ~IsNaN(f) /\ ~IsNaN(g)
    /\ (f = g \/ (IsZeroFloat(f) /\ IsZeroFloat(g)))

\* a CrocValue: the type tag and the union (m is mBool, mInt, mFloat or the
\* object pointer mBaseObj, whichever the tag selects)
Val(type, m) == [type |-> type, m |-> m]
nullValue == Val(TNull, Zero)
BoolVal(b) == Val(TBool, b)
IntVal(n) == Val(TInt, ToInt(n, intSize * 8))
FloatVal(f) == Val(TFloat, f)

isGCObject(v) == v.type >= FirstGCType

\* faulty variant: the type test is missing, so the switch on this.type
\* decides alone
opEqualsNoTypeTest(this, other) ==
    CASE this.type = TNull -> TRUE
      [] this.type = TBool -> other.type = TBool /\ this.m = other.m
      [] this.type = TInt -> other.type = TInt /\ this.m = other.m
      [] this.type = TFloat -> other.type = TFloat /\ FloatEq(this.m, other.m)
      [] OTHER -> isGCObject(other) /\ this.m = other.m

\* CrocValue.opEquals
opEquals(this, other) ==
    IF this.type # other.type THEN FALSE
    ELSE CASE this.type = TNull -> TRUE
           [] this.type = TBool -> this.m = other.m
           [] this.type = TInt -> this.m = other.m
           [] this.type = TFloat -> FloatEq(this.m, other.m)
           [] OTHER -> this.m = other.m

\* faulty variant: the float is tested by its bit pattern
isFalseBitwise(v) ==
    \/ (v.type = TBool /\ v.m = FALSE)
    \/ (v.type = TNull)
    \/ (v.type = TInt /\ v.m = Zero)
    \/ (v.type = TFloat /\ v.m = Float(0, 0, 0))

\* CrocValue.isFalse
isFalse(v) ==
    \/ (v.type = TBool /\ v.m = FALSE)
    \/ (v.type = TNull)
    \/ (v.type = TInt /\ v.m = Zero)
    \/ (v.type = TFloat /\ FloatEq(v.m, Float(0, 0, 0)))

\* hash_t of the build
HashBits == 32

\* the sum of two hash_t words, as the machine adds them
RECURSIVE AddWords(_, _, _, _)
AddWords(a, b, i, carry) ==
    IF i = HashBits THEN {}
    ELSE (IF ((IF i \in a THEN 1 ELSE 0) + (IF i \in b THEN 1 ELSE 0) + carry) % 2 = 1
          THEN {i} ELSE {})
         \cup AddWords(a, b, i + 1,
                       ((IF i \in a THEN 1 ELSE 0) + (IF i \in b THEN 1 ELSE 0) + carry) \div 2)

\* getHash of an 8-byte value: the sum of its two 4-byte words
getHash(bits) ==
    AddWords(bits \cap (0 .. 31), {i - 32 : i \in {j \in bits : j >= 32}}, 0, 0)

\* the 64 bits of a double: mantissa in bits 0..51, exponent in 52..62, sign in 63
FloatBits(f) ==
    NatBits(f.man, 0) \cup NatBits(f.exp, 52) \cup (IF f.sign = 1 THEN {63} ELSE {})

\* CrocValue.toHash; mString.hash is a field of the string object and so a
\* function of its address, as is the hash of the other objects
toHash(v) ==
    CASE v.type = TNull -> {}
      [] v.type = TBool -> IF v.m THEN {0} ELSE {}
      [] v.type = TInt -> getHash(v.m)
      [] v.type = TFloat -> getHash(FloatBits(v.m))
      [] v.type = TString -> NatBits(v.m, 0)
      [] OTHER -> NatBits(v.m, 0)

-----------------------------------------------------------------------------
(* Heap objects (croc/types.d) and Croc tables *)

\* strings are interned: the pointer of a string value is modelled by its
\* content, a sequence of UTF-8 bytes
StringVal(bytes) == Val(TString, bytes)
ObjVal(h, a) == Val(h[a].type, a)

StrSelf == <<115, 101, 108, 102>>
StrA == <<97>>
StrT == <<116>>

\* identity of two CrocValues (the `is` of the language; interned strings
\* make it coincide with opEquals on strings)
Same(a, b) == a.type = b.type /\ opEquals(a, b)

\* an object of the heap; every object carries every field, the ones of other
\* types at their defaults
NewObj(type) ==
    [type |-> type,
     data |-> <<>>,            \* CrocTable.data / CrocNamespace.data / CrocInstance.fields as <<key, value>> pairs, CrocArray.data, CrocMemblock.data
     ownData |-> TRUE,         \* CrocMemblock.ownData
     isNative |-> FALSE,       \* CrocFunction.isNative
     isFrozen |-> FALSE,       \* CrocClass.isFrozen
     finalizer |-> FALSE,      \* CrocClass.finalizer !is null
     name |-> StrA,            \* CrocClass.name / CrocNamespace.name / CrocFuncDef.name
     parent |-> 0,             \* CrocInstance.parent / CrocNamespace.parent / CrocFunction.scriptFunc (0 is null)
     opSerialize |-> "absent", \* what the instance's opSerialize holds: "absent", "function", "true", "false", "other"
     upvals |-> 0,             \* #CrocFuncDef.upvals
     cachedFunc |-> FALSE]     \* CrocFuncDef.cachedFunc !is null

\* t[k] of a Croc table held as a sequence of <<key, value>> pairs: null when
\* k is not a key
RECURSIVE TableGetFrom(_, _, _)
TableGetFrom(t, k, i) ==
    IF i > Len(t) THEN nullValue
    ELSE IF Same(t[i][1], k) THEN t[i][2]
    ELSE TableGetFrom(t, k, i + 1)

TableGet(t, k) == TableGetFrom(t, k, 1)

HasKey(t, k) == \E i \in 1 .. Len(t) : Same(t[i][1], k)

RemoveKey(t, k) ==
    LET keep == {i \in 1 .. Len(t) : ~Same(t[i][1], k)}
        RECURSIVE Pick(_)
        Pick(i) == IF i > Len(t) THEN <<>>
                   ELSE (IF i \in keep THEN <<t[i]>> ELSE <<>>) \o Pick(i + 1)
    IN Pick(1)

\* t[k] = v for a non-null key: assigning null removes the key
TableSet(t, k, v) ==
    IF v.type = TNull THEN RemoveKey(t, k)
    ELSE IF HasKey(t, k)
         THEN [i \in 1 .. Len(t) |-> IF Same(t[i][1], k) THEN <<k, v>> ELSE t[i]]
         ELSE Append(t, <<k, v>>)

\* object.isFrozen
isFrozen(h, v) == h[v.m].isFrozen

\* object.isFinalizable: a class is finalizable when it has a finalizer, an
\* instance when its class has one
isFinalizable(h, v) ==
    IF v.type = TClass THEN h[v.m].finalizer
    ELSE h[h[v.m].parent].finalizer

-----------------------------------------------------------------------------
(* Serializer *)

\* TypeTags: the tag of a type is its CrocValue.Type, followed by the two
\* pseudo-types
TagTransient == 17
TagBackref == 18

\* the state of a Serializer during writeGraph: the bytes written to _output,
\* _objTable, _objIndex, the exception in flight ("" when none), and the
\* history of the call: what _serialize did with each value ("transient" or
\* "plain") and what _alreadyWritten did with each object ("new" with the ID
\* it assigned, "backref" with the ID it wrote), and where in the stream the call and the
\* graph after the signature begin
SerState(out0) ==
    [out |-> out0, objTable |-> <<>>, objIndex |-> 0, err |-> "", log |-> <<>>,
     start |-> Len(out0), sigEnd |-> Len(out0)]

Env(h, tr, build) == [heap |-> h, trans |-> tr, build |-> build]

Throw(s, err) == [s EXCEPT !.err = err]

Log(s, ev, v, id) == [s EXCEPT !.log = Append(@, [ev |-> ev, v |-> v, id |-> id])]

\* _writeExact(with :_output, m): the stream takes every byte
WriteBytes(s, bytes) == [s EXCEPT !.out = @ \o bytes]

\* Serializer._uint8
SUint8(s, v) == WriteBytes(s, <<v>>)

\* Serializer._tag
STag(s, v) == SUint8(s, v)

\* Serializer._integer on the serializer state
SInt(e, s, v) == WriteBytes(s, SInteger(v, IntBitSize(e.build)))

\* Serializer._integer(#x)
SLength(e, s, n) == SInt(e, s, ToInt(n, IntBitSize(e.build)))

\* Serializer._writeSignature
WriteSignature(e, s) ==
    Then(IntBitSize(e.build), LAMBDA W :
    Then(SUint8(s, e.build.Endianness), LAMBDA s1 :
    Then(SInt(e, s1, ToInt(e.build.PlatformBits, W)), LAMBDA s2 :
    Then(SInt(e, s2, ToInt(e.build.intSize, W)), LAMBDA s3 :
    Then(SInt(e, s3, ToInt(e.build.floatSize, W)), LAMBDA s4 :
       SInt(e, s4, ToInt(e.build.SerialVersion, W)))))))

\* Serializer._alreadyWritten: the state after, and the returned bool
AlreadyWritten(e, s, v) ==
    Then(TableGet(s.objTable, v), LAMBDA idx :
       IF ~isFalse(idx)
       THEN [s |-> Log(SInt(e, STag(s, TagBackref), idx.m), "backref", v, idx.m),
             written |-> TRUE]
       ELSE [s |-> [Log(s, "new", v, ToInt(s.objIndex, IntBitSize(e.build))) EXCEPT
                      !.objTable = TableSet(@, v, Val(TInt, ToInt(s.objIndex, IntBitSize(e.build)))),
                      !.objIndex = @ + 1],
             written |-> FALSE])

\* the serialize methods call each other through Serializer._serialize
RECURSIVE Serialize(_, _, _)
RECURSIVE SerializeEach(_, _, _, _)
RECURSIVE SerializePairs(_, _, _, _)

\* foreach(val; v) :_serialize(val), stopping at the first exception
SerializeEach(e, s, vals, i) ==
    IF s.err # "" \/ i > Len(vals) THEN s
    ELSE SerializeEach(e, Serialize(e, s, vals[i]), vals, i + 1)

\* foreach(key, val; v) { :_serialize(key); :_serialize(val) }
SerializePairs(e, s, pairs, i) ==
    IF s.err # "" \/ i > Len(pairs) THEN s
    ELSE Then(Serialize(e, s, pairs[i][1]), LAMBDA s1 :
            SerializePairs(e, Serialize(e, s1, pairs[i][2]), pairs, i + 1))

SerializeNull(e, s, v) == STag(s, TNull)

SerializeBool(e, s, v) == SUint8(STag(s, TBool), IF v.m THEN 1 ELSE 0)

SerializeInt(e, s, v) == SInt(e, STag(s, TInt), v.m)

\* memblock.writeFloat64(0, v): the eight bytes of the double in the byte
\* order of the machine (mantissas of the model fit one byte)
Float64Bytes(f, endian) ==
    Then(<<f.man, 0, 0, 0, 0, 0, (f.exp % 16) * 16, f.sign * 128 + (f.exp \div 16)>>, LAMBDA le :
       IF endian = 0 THEN le ELSE [i \in 1 .. 8 |-> le[9 - i]])

SerializeFloat(e, s, v) ==
    WriteBytes(STag(s, TFloat), Float64Bytes(v.m, e.build.Endianness))

SerializeNativeobj(e, s, v) == Throw(s, "TypeError")

SerializeString(e, s, v) ==
    Then(AlreadyWritten(e, s, v), LAMBDA a :
       IF a.written THEN a.s
       ELSE WriteBytes(SLength(e, STag(a.s, TString), Len(v.m)), v.m))

SerializeTable(e, s, v) ==
    Then(AlreadyWritten(e, s, v), LAMBDA a :
    Then(e.heap[v.m].data, LAMBDA data :
       IF a.written THEN a.s
       ELSE SerializePairs(e, SLength(e, STag(a.s, TTable), Len(data)), data, 1)))

SerializeNamespace(e, s, v) ==
    Then(AlreadyWritten(e, s, v), LAMBDA a :
    Then(e.heap[v.m], LAMBDA o :
    Then(Serialize(e, STag(a.s, TNamespace), StringVal(o.name)), LAMBDA s1 :
    Then(IF s1.err # "" THEN s1
              ELSE IF o.parent = 0 THEN SUint8(s1, 0)
              ELSE Serialize(e, SUint8(s1, 1), ObjVal(e.heap, o.parent)), LAMBDA s2 :
       IF a.written THEN a.s
       ELSE IF s2.err # "" THEN s2
       ELSE SerializePairs(e, SLength(e, s2, Len(o.data)), o.data, 1)))))

SerializeArray(e, s, v) ==
    Then(AlreadyWritten(e, s, v), LAMBDA a :
    Then(e.heap[v.m].data, LAMBDA data :
       IF a.written THEN a.s
       ELSE SerializeEach(e, SLength(e, STag(a.s, TArray), Len(data)), data, 1)))

SerializeMemblock(e, s, v) ==
    Then(AlreadyWritten(e, s, v), LAMBDA a :
    Then(e.heap[v.m], LAMBDA o :
       IF a.written THEN a.s
       ELSE IF ~o.ownData THEN Throw(a.s, "ValueError")
       ELSE WriteBytes(SLength(e, STag(a.s, TMemblock), Len(o.data)), o.data)))

\* Serializer._nativeSerializeFunction: the body of a script function
NativeSerializeFunction(e, s, v) == s

SerializeFunction(e, s, v) ==
    Then(AlreadyWritten(e, s, v), LAMBDA a :
       IF a.written THEN a.s
       ELSE IF e.heap[v.m].isNative THEN Throw(a.s, "ValueError")
       ELSE NativeSerializeFunction(e, STag(a.s, TFunction), v))

\* Serializer._nativeSerializeFuncdef: the name and the number of upvalues
NativeSerializeFuncdef(e, s, v) ==
    Then(Serialize(e, s, StringVal(e.heap[v.m].name)), LAMBDA s1 :
       IF s1.err # "" THEN s1 ELSE SLength(e, s1, e.heap[v.m].upvals))

SerializeFuncdef(e, s, v) ==
    Then(AlreadyWritten(e, s, v), LAMBDA a :
       IF a.written THEN a.s
       ELSE NativeSerializeFuncdef(e, STag(a.s, TFuncDef), v))

\* Serializer._nativeSerializeClass: the members of the class
NativeSerializeClass(e, s, v) == s

SerializeClass(e, s, v) ==
    Then(AlreadyWritten(e, s, v), LAMBDA a :
    Then(Serialize(e, STag(a.s, TClass), StringVal(e.heap[v.m].name)), LAMBDA s1 :
       IF a.written THEN a.s
       ELSE IF s1.err # "" THEN s1
       ELSE IF isFrozen(e.heap, v) /\ isFinalizable(e.heap, v) THEN Throw(s1, "ValueError")
       ELSE SUint8(NativeSerializeClass(e, s1, v), IF isFrozen(e.heap, v) THEN 1 ELSE 0)))

\* Serializer._instSize
InstSize(e, v) == Len(e.heap[v.m].data)

\* v.opSerialize(:_output, :_serializeFunc) of a class that hands each of its
\* fields to the callback
CallOpSerialize(e, s, v) ==
    SerializeEach(e, s, [i \in 1 .. Len(e.heap[v.m].data) |-> e.heap[v.m].data[i][2]], 1)

\* Serializer._nativeSerializeInstance: the fields as key-value pairs
NativeSerializeInstance(e, s, v) == SerializePairs(e, s, e.heap[v.m].data, 1)

SerializeInstance(e, s, v) ==
    Then(AlreadyWritten(e, s, v), LAMBDA a :
    Then(e.heap[v.m], LAMBDA o :
    Then(Serialize(e, SLength(e, STag(a.s, TInstance), InstSize(e, v)),
                        ObjVal(e.heap, o.parent)), LAMBDA s1 :
       IF a.written THEN a.s
       ELSE IF s1.err # "" THEN s1
       ELSE IF o.opSerialize = "function" THEN CallOpSerialize(e, SUint8(s1, 1), v)
       ELSE IF o.opSerialize = "false" THEN Throw(s1, "ValueError")
       ELSE IF o.opSerialize = "other" THEN Throw(s1, "TypeError")
       ELSE IF isFinalizable(e.heap, v) THEN Throw(s1, "ValueError")
       ELSE NativeSerializeInstance(e, SUint8(s1, 0), v))))

SerializeThread(e, s, v) == Throw(s, "TypeError")

\* Serializer._serialize
Serialize(e, s0, val) ==
    IF s0.err # "" THEN s0
    ELSE LET replacement == TableGet(e.trans, val)
         IN IF ~isFalse(replacement)
            THEN Serialize(e, STag(Log(s0, "transient", val, Zero), TagTransient), replacement)
            ELSE LET s == Log(s0, "plain", val, Zero) IN
                 CASE val.type = TNull -> SerializeNull(e, s, val)
                   [] val.type = TBool -> SerializeBool(e, s, val)
                   [] val.type = TInt -> SerializeInt(e, s, val)
                   [] val.type = TFloat -> SerializeFloat(e, s, val)
                   [] val.type = TNativeObj -> SerializeNativeobj(e, s, val)
                   [] val.type = TString -> SerializeString(e, s, val)
                   [] val.type = TTable -> SerializeTable(e, s, val)
                   [] val.type = TNamespace -> SerializeNamespace(e, s, val)
                   [] val.type = TArray -> SerializeArray(e, s, val)
                   [] val.type = TMemblock -> SerializeMemblock(e, s, val)
                   [] val.type = TFunction -> SerializeFunction(e, s, val)
                   [] val.type = TFuncDef -> SerializeFuncdef(e, s, val)
                   [] val.type = TClass -> SerializeClass(e, s, val)
                   [] val.type = TInstance -> SerializeInstance(e, s, val)
                   [] val.type = TThread -> SerializeThread(e, s, val)

\* Serializer.writeGraph without its parameter check: the signature, the
\* graph; scope(exit) clears _objTable however the call ends
WriteGraph(e, out0, val) ==
    Then(WriteSignature(e, SerState(out0)), LAMBDA sig :
    Then(Serialize(e, [sig EXCEPT !.sigEnd = Len(sig.out)], val), LAMBDA s :
       [s EXCEPT !.objTable = <<>>]))

-----------------------------------------------------------------------------
(* Deserializer *)

\* the state of a Deserializer during readGraph: the stream and its read
\* position, _objTable, the heap of the reading VM, the exception in flight
\* ("" when none) and the value returned by the last call
DesState(inp, pos, h) ==
    [inp |-> inp, pos |-> pos, objTable |-> <<>>, heap |-> h, err |-> "", ret |-> nullValue]

DThrow(d, err) == [d EXCEPT !.err = err]
DReturn(d, v) == [d EXCEPT !.ret = v]

\* _readExact(with :_input, m) for #m = n: returns the bytes, EOFException
\* when the stream ends first
ReadBytes(d, n) ==
    IF d.pos + n > Len(d.inp) THEN DThrow(d, "EOFException")
    ELSE [d EXCEPT !.ret = SubSeq(d.inp, d.pos + 1, d.pos + n), !.pos = @ + n]

\* Deserializer._uint8: returns the byte as a number
DUint8(d) ==
    Then(ReadBytes(d, 1), LAMBDA r :
       IF r.err # "" THEN r ELSE DReturn(r, r.ret[1]))

\* Deserializer._tag
DTag(d) == DUint8(d)

\* Deserializer._integer on the deserializer state: returns the int
DInt(e, d) ==
    Then(DInteger(d.inp, d.pos, IntBitSize(e.build)), LAMBDA r :
       [d EXCEPT !.pos = r.pos, !.err = r.err, !.ret = r.val])

\* the streams of the model hold fewer bytes than this
StreamLimit == 256

\* ret < 0 for an int of width w
IsNegative(v, w) == (w - 1) \in v
\* the number held by a non-negative int below StreamLimit
SmallNat(v) == ByteOf(v)
IsSmallNat(v, w) == v \subseteq (0 .. 7)

\* Deserializer._length: returns the length as a number.  A length of
\* StreamLimit or more exceeds what the stream holds: reading that many
\* bytes or values ends in the EOFException of _readExact
DLength(e, d) ==
    Then(DInt(e, d), LAMBDA r :
    Then(IntBitSize(e.build), LAMBDA W :
       IF r.err # "" THEN r
       ELSE IF IsNegative(r.ret, W) \/ (r.ret \cap (32 .. (W - 1))) # {} THEN DThrow(r, "ValueError")
       ELSE IF ~IsSmallNat(r.ret, W) THEN DThrow(r, "EOFException")
       ELSE DReturn(r, SmallNat(r.ret))))

\* faulty variant: the serial version is read but not compared
ReadSignatureAnyVersion(e, d) ==
    Then(IntBitSize(e.build), LAMBDA W :
    Then(DUint8(d), LAMBDA endian :
    Then(DInt(e, endian), LAMBDA bits :
    Then(DInt(e, bits), LAMBDA isize :
    Then(DInt(e, isize), LAMBDA fsize :
    Then(DInt(e, fsize), LAMBDA version :
       IF endian.err # "" THEN endian
       ELSE IF endian.ret # e.build.Endianness THEN DThrow(endian, "ValueError")
       ELSE IF bits.err # "" THEN bits
       ELSE IF bits.ret # ToInt(e.build.PlatformBits, W) THEN DThrow(bits, "ValueError")
       ELSE IF isize.err # "" THEN isize
       ELSE IF isize.ret # ToInt(e.build.intSize, W) THEN DThrow(isize, "ValueError")
       ELSE IF fsize.err # "" THEN fsize
       ELSE IF fsize.ret # ToInt(e.build.floatSize, W) THEN DThrow(fsize, "ValueError")
       ELSE IF version.err # "" THEN version
       ELSE DReturn(version, nullValue)))))))

\* Deserializer._readSignature
ReadSignature(e, d) ==
    Then(IntBitSize(e.build), LAMBDA W :
    Then(DUint8(d), LAMBDA endian :
    Then(DInt(e, endian), LAMBDA bits :
    Then(DInt(e, bits), LAMBDA isize :
    Then(DInt(e, isize), LAMBDA fsize :
    Then(DInt(e, fsize), LAMBDA version :
       IF endian.err # "" THEN endian
       ELSE IF endian.ret # e.build.Endianness THEN DThrow(endian, "ValueError")
       ELSE IF bits.err # "" THEN bits
       ELSE IF bits.ret # ToInt(e.build.PlatformBits, W) THEN DThrow(bits, "ValueError")
       ELSE IF isize.err # "" THEN isize
       ELSE IF isize.ret # ToInt(e.build.intSize, W) THEN DThrow(isize, "ValueError")
       ELSE IF fsize.err # "" THEN fsize
       ELSE IF fsize.ret # ToInt(e.build.floatSize, W) THEN DThrow(fsize, "ValueError")
       ELSE IF version.err # "" THEN version
       ELSE IF version.ret # ToInt(e.build.SerialVersion, W) THEN DThrow(version, "ValueError")
       ELSE DReturn(version, nullValue)))))))

\* Deserializer._addObject
AddObject(d, val) == [d EXCEPT !.objTable = Append(@, val), !.ret = val]

\* allocation of a fresh object in the heap of the reading VM
Allocate(d, obj) ==
    [d EXCEPT !.heap = Append(@, obj), !.ret = Val(obj.type, Len(d.heap) + 1)]

\* Deserializer._deserializeBackrefImpl
DeserializeBackrefImpl(e, d) ==
    Then(DInt(e, d), LAMBDA r :
    Then(IntBitSize(e.build), LAMBDA W :
       IF r.err # "" THEN r
       ELSE IF IsNegative(r.ret, W) \/ ~IsSmallNat(r.ret, W) THEN DThrow(r, "ValueError")
       ELSE IF SmallNat(r.ret) >= Len(r.objTable) THEN DThrow(r, "ValueError")
       ELSE DReturn(r, r.objTable[SmallNat(r.ret) + 1])))

DeserializeNullImpl(e, d) == DReturn(d, nullValue)

DeserializeBoolImpl(e, d) ==
    Then(DUint8(d), LAMBDA r :
       IF r.err # "" THEN r ELSE DReturn(r, BoolVal(r.ret # 0)))

DeserializeIntImpl(e, d) ==
    Then(DInt(e, d), LAMBDA r :
       IF r.err # "" THEN r ELSE DReturn(r, Val(TInt, r.ret)))

\* memblock.readFloat64(0): the double held by eight bytes in the byte order
\* of the machine
Float64Of(bytes, endian) ==
    Then(IF endian = 0 THEN bytes ELSE [i \in 1 .. 8 |-> bytes[9 - i]], LAMBDA le :
       Float(le[8] \div 128, (le[8] % 128) * 16 + le[7] \div 16, le[1]))

DeserializeFloatImpl(e, d) ==
    Then(ReadBytes(d, 8), LAMBDA r :
       IF r.err # "" THEN r
       ELSE DReturn(r, FloatVal(Float64Of(r.ret, e.build.Endianness))))

DeserializeStringImpl(e, d) ==
    Then(DLength(e, d), LAMBDA len :
    Then(ReadBytes(len, len.ret), LAMBDA r :
       IF len.err # "" THEN len
       ELSE IF r.err # "" THEN r
       ELSE AddObject(r, StringVal(r.ret))))

DeserializeMemblockImpl(e, d) ==
    Then(DLength(e, d), LAMBDA len :
    Then(ReadBytes(len, len.ret), LAMBDA r :
       IF len.err # "" THEN len
       ELSE IF r.err # "" THEN r
       ELSE Allocate(r, [NewObj(TMemblock) EXCEPT !.data = r.ret])))

RECURSIVE Deserialize(_, _)
RECURSIVE ReadTableEntries(_, _, _, _)
RECURSIVE ReadArraySlots(_, _, _, _)

\* Deserializer._deserializeTransientImpl
DeserializeTransientImpl(e, d) ==
    Then(Deserialize(e, d), LAMBDA key :
    Then(TableGet(e.trans, key.ret), LAMBDA ret :
       IF key.err # "" THEN key
       ELSE IF ret.type = TNull THEN DThrow(key, "ValueError")
       ELSE DReturn(key, ret)))

\* for(i; 0 .. len) { local key, value = :_deserialize(), :_deserialize(); ret[key] = value }
\* on the table at address a; assigning through a null key is a TypeError
ReadTableEntries(e, d, a, n) ==
    IF n = 0 THEN DReturn(d, Val(TTable, a))
    ELSE Then(Deserialize(e, d), LAMBDA key :
         Then(Deserialize(e, key), LAMBDA value :
            IF key.err # "" THEN key
            ELSE IF value.err # "" THEN value
            ELSE IF key.ret.type = TNull THEN DThrow(value, "TypeError")
            ELSE ReadTableEntries(e,
                    [value EXCEPT !.heap[a].data = TableSet(@, key.ret, value.ret)],
                    a, n - 1)))

\* Deserializer._deserializeTableImpl
DeserializeTableImpl(e, d) ==
    Then(DLength(e, d), LAMBDA len :
    Then(Allocate(len, NewObj(TTable)), LAMBDA ret :
       IF len.err # "" THEN len
       ELSE ReadTableEntries(e, AddObject(ret, ret.ret), ret.ret.m, len.ret)))

\* for(i; 0 .. #ret) ret[i] = :_deserialize(), from slot i (1-based) on
ReadArraySlots(e, d, a, i) ==
    IF i > Len(d.heap[a].data) THEN DReturn(d, Val(TArray, a))
    ELSE Then(Deserialize(e, d), LAMBDA r :
            IF r.err # "" THEN r
            ELSE ReadArraySlots(e, [r EXCEPT !.heap[a].data[i] = r.ret], a, i + 1))

\* Deserializer._deserializeArrayImpl
DeserializeArrayImpl(e, d) ==
    Then(Allocate(d, NewObj(TArray)), LAMBDA ret :
    Then(AddObject(ret, ret.ret), LAMBDA added :
    Then(DLength(e, added), LAMBDA len :
       IF len.err # "" THEN len
       ELSE ReadArraySlots(e,
               [len EXCEPT !.heap[ret.ret.m].data = [i \in 1 .. len.ret |-> nullValue]],
               ret.ret.m, 1))))

\* Deserializer._checkObjTag: returns null when the tag read is the wanted
\* one, the object when a back-reference or a transient of the wanted type
\* stands in its place
CheckObjTag(e, d, wanted) ==
    Then(DTag(d), LAMBDA t :
    Then(IF t.ret = TagBackref THEN DeserializeBackrefImpl(e, t)
               ELSE DeserializeTransientImpl(e, t), LAMBDA val :
       IF t.err # "" THEN t
       ELSE IF t.ret = wanted THEN DReturn(t, nullValue)
       ELSE IF t.ret \notin {TagBackref, TagTransient} THEN DThrow(t, "ValueError")
       ELSE IF val.err # "" THEN val
       ELSE IF val.ret.type # wanted THEN DThrow(val, "ValueError")
       ELSE val))

\* Deserializer._deserializeString
DeserializeString(e, d) ==
    Then(CheckObjTag(e, d, TString), LAMBDA r :
       IF r.err # "" THEN r
       ELSE IF ~isFalse(r.ret) THEN r
       ELSE DeserializeStringImpl(e, r))

\* Deserializer._deserializeFuncdefImpl: a fresh funcdef, never closed yet,
\* with the name and the number of upvalues read from the stream
DeserializeFuncdefImpl(e, d) ==
    Then(Allocate(d, NewObj(TFuncDef)), LAMBDA ret :
    Then(AddObject(ret, ret.ret), LAMBDA added :
    Then(DeserializeString(e, added), LAMBDA name :
    Then(DLength(e, name), LAMBDA nup :
       IF name.err # "" THEN name
       ELSE IF nup.err # "" THEN nup
       ELSE DReturn([nup EXCEPT !.heap[ret.ret.m].name = name.ret.m,
                                !.heap[ret.ret.m].upvals = nup.ret],
                    ret.ret)))))

\* the tags whose values the model does not rebuild: the Impl methods of
\* namespace, function, class, instance and upval are native code, weakrefs
\* are left out, nativeobj and thread have no Impl method
NativeImplTags == {TNativeObj, TWeakRef, TNamespace, TFunction, TClass, TInstance, TThread, TUpvalue}

\* Deserializer._deserialize
Deserialize(e, d) ==
    Then(DTag(d), LAMBDA t :
       IF t.err # "" THEN t
       ELSE CASE t.ret = TNull -> DeserializeNullImpl(e, t)
              [] t.ret = TBool -> DeserializeBoolImpl(e, t)
              [] t.ret = TInt -> DeserializeIntImpl(e, t)
              [] t.ret = TFloat -> DeserializeFloatImpl(e, t)
              [] t.ret = TString -> DeserializeStringImpl(e, t)
              [] t.ret = TTable -> DeserializeTableImpl(e, t)
              [] t.ret = TArray -> DeserializeArrayImpl(e, t)
              [] t.ret = TMemblock -> DeserializeMemblockImpl(e, t)
              [] t.ret = TFuncDef -> DeserializeFuncdefImpl(e, t)
              [] t.ret = TagTransient -> DeserializeTransientImpl(e, t)
              [] t.ret = TagBackref -> DeserializeBackrefImpl(e, t)
              [] t.ret \in NativeImplTags -> DThrow(t, "NativeImpl")
              [] OTHER -> DThrow(t, "ValueError"))

\* Deserializer.readGraph: the signature is checked, then the root is read
ReadGraph(e, inp, pos, h) ==
    Then(ReadSignature(e, DesState(inp, pos, h)), LAMBDA sig :
       IF sig.err # "" THEN sig ELSE Deserialize(e, sig))

-----------------------------------------------------------------------------
(* Modules *)

\* ModuleFourCC = getCodec("ascii").encode("Croc")
ModuleFourCC == <<67, 114, 111, 99>>

\* funcdef.isCacheable(): the funcdef has no upvalues
isCacheable(h, mod) == h[mod.m].upvals = 0

\* funcdef.isCached(): a closure of the funcdef has been made
isCached(h, mod) == h[mod.m].cachedFunc

\* what a module call leaves: the stream, the heap, the Serializer or
\* Deserializer it ran, and what it threw or returned
ModuleOutcome(err, o, h, pos, run, mod, name) ==
    [err |-> err, out |-> o, heap |-> h, pos |-> pos, run |-> run, mod |-> mod, name |-> name]

\* serialization.serializeModule(mod, name, output)
serializeModule(build, o, h, mod, name) ==
    Then(Val(TArray, Len(h) + 1), LAMBDA graph :
    Then(Append(h, [NewObj(TArray) EXCEPT !.data = <<name, mod>>]), LAMBDA h1 :
    Then(WriteGraph(Env(h1, <<>>, build), o \o ModuleFourCC, graph), LAMBDA s :
       IF ~isCacheable(h, mod) THEN ModuleOutcome("ValueError", o, h, 0, SerState(o), mod, name)
       ELSE IF isCached(h, mod) THEN ModuleOutcome("ValueError", o, h, 0, SerState(o), mod, name)
       ELSE ModuleOutcome(s.err, s.out, h1, 0, s, mod, name))))

\* faulty variant: the funcdef read back is not asked whether it is cacheable
deserializeModuleAnyFuncdef(build, inp, pos, h) ==
    Then(ReadBytes(DesState(inp, pos, h), 4), LAMBDA buf :
    Then(ReadGraph(Env(h, <<>>, build), inp, buf.pos, h), LAMBDA d :
    Then(d.ret, LAMBDA ret :
    Then(d.heap[ret.m].data, LAMBDA elems :
       IF buf.err # "" THEN ModuleOutcome(buf.err, inp, h, buf.pos, buf, nullValue, nullValue)
       ELSE IF buf.ret # ModuleFourCC
            THEN ModuleOutcome("ValueError", inp, h, buf.pos, buf, nullValue, nullValue)
       ELSE IF d.err # "" THEN ModuleOutcome(d.err, inp, d.heap, d.pos, d, nullValue, nullValue)
       ELSE IF \/ ret.type # TArray
               \/ Len(elems) # 2
               \/ elems[1].type # TString
               \/ elems[2].type # TFuncDef
            THEN ModuleOutcome("ValueError", inp, d.heap, d.pos, d, nullValue, nullValue)
       ELSE IF isCached(d.heap, elems[2])
            THEN ModuleOutcome("ValueError", inp, d.heap, d.pos, d, nullValue, nullValue)
       ELSE ModuleOutcome("", inp, d.heap, d.pos, d, elems[2], elems[1])))))

\* serialization.deserializeModule(input)
deserializeModule(build, inp, pos, h) ==
    Then(ReadBytes(DesState(inp, pos, h), 4), LAMBDA buf :
    Then(ReadGraph(Env(h, <<>>, build), inp, buf.pos, h), LAMBDA d :
    Then(d.ret, LAMBDA ret :
    Then(d.heap[ret.m].data, LAMBDA elems :
       IF buf.err # "" THEN ModuleOutcome(buf.err, inp, h, buf.pos, buf, nullValue, nullValue)
       ELSE IF buf.ret # ModuleFourCC
            THEN ModuleOutcome("ValueError", inp, h, buf.pos, buf, nullValue, nullValue)
       ELSE IF d.err # "" THEN ModuleOutcome(d.err, inp, d.heap, d.pos, d, nullValue, nullValue)
       ELSE IF \/ ret.type # TArray
               \/ Len(elems) # 2
               \/ elems[1].type # TString
               \/ elems[2].type # TFuncDef
            THEN ModuleOutcome("ValueError", inp, d.heap, d.pos, d, nullValue, nullValue)
       ELSE IF ~isCacheable(d.heap, elems[2]) \/ isCached(d.heap, elems[2])
            THEN ModuleOutcome("ValueError", inp, d.heap, d.pos, d, nullValue, nullValue)
       ELSE ModuleOutcome("", inp, d.heap, d.pos, d, elems[2], elems[1])))))

-----------------------------------------------------------------------------
(* What the driving script keeps of a finished call *)

SerResult(s) ==
    [objIndex |-> s.objIndex, err |-> s.err, log |-> s.log, start |-> s.start, sigEnd |-> s.sigEnd]

DesResult(d) == [objTable |-> d.objTable, err |-> d.err, ret |-> d.ret]

\* the inverse transients table handed to deserializeGraph:
\* {[v] = k foreach k, v; transients}
Inverse(tr) == [i \in 1 .. Len(tr) |-> <<tr[i][2], tr[i][1]>>]

-----------------------------------------------------------------------------
(* Values of the variables a specification does not use *)

IntIdle == ivals = <<>> /\ nwritten = 0 /\ ires = <<>>

\* no module call made yet
NoModuleCall == [op |-> "none", via |-> "none", err |-> "", mod |-> nullValue, name |-> nullValue]

GraphIdle ==
    /\ heap = <<>> /\ trans = <<>> /\ root = nullValue
    /\ ser = SerResult(SerState(<<>>)) /\ des = DesResult(DesState(<<>>, 0, <<>>))
    /\ mres = NoModuleCall

ValIdle ==
    /\ va = nullValue /\ vb = nullValue
    /\ eqRes = <<>> /\ falseRes = <<>> /\ hashRes = <<>>

ThrIdle == threads = <<>> /\ callers = <<>> /\ cur = 0 /\ thrRes = <<>>

ModIdle ==
    /\ loaded = <<>> /\ Loading = {} /\ Prefixes = {}
    /\ globals = <<>> /\ frames = <<>> /\ modRes = <<>> /\ ncalls = 0

StrIdle == strm = <<>> /\ dest = <<>> /\ rdRes = <<>> /\ srcStrm = <<>> /\ got = <<>>

LibIdle == ThrIdle /\ ModIdle /\ StrIdle

-----------------------------------------------------------------------------
(* CrocValue specification: opEquals and isFalse applied to pairs of values *)

\* number of objects of each GC type
ObjsPerType == 2

\* the address of the k-th object of a type; an object has one type, so no
\* two types share an address.  Object k = 1 of a type is empty (length 0).
Addr(type, k) == type * 16 + k

FloatSamples ==
    {Float(s, e, m) : s \in {0, 1}, e \in {0, 1, ExpBias, ExpMax}, m \in {0, 1}}

ValueSamples ==
    {nullValue, BoolVal(FALSE), BoolVal(TRUE)}
        \cup {IntVal(n) : n \in {0, 1, -1}}
        \cup {Val(TInt, {intSize * 8 - 1})}
        \cup {FloatVal(f) : f \in FloatSamples}
        \cup {Val(t, Addr(t, k)) : t \in FirstGCType .. TThread, k \in 1 .. ObjsPerType}

InitVal ==
    /\ pc = "val"
    /\ wbuild = NativeBuild /\ rbuild = NativeBuild
    /\ out = <<>> /\ dPos = 0
    /\ IntIdle
    /\ GraphIdle
    /\ LibIdle
    /\ va \in ValueSamples /\ vb \in ValueSamples
    /\ eqRes = <<>> /\ falseRes = <<>> /\ hashRes = <<>>

\* va == vb
CallOpEquals ==
    /\ pc = "val"
    /\ eqRes = <<>>
    /\ eqRes' = <<opEquals(va, vb)>>
    /\ UNCHANGED <<pc, wbuild, rbuild, out, dPos, va, vb, falseRes, hashRes>>
    /\ UNCHANGED intVars
    /\ UNCHANGED libVars
    /\ UNCHANGED graphVars

\* va.isFalse()
CallIsFalse ==
    /\ pc = "val"
    /\ falseRes = <<>>
    /\ falseRes' = <<isFalse(va)>>
    /\ UNCHANGED <<pc, wbuild, rbuild, out, dPos, va, vb, eqRes, hashRes>>
    /\ UNCHANGED intVars
    /\ UNCHANGED libVars
    /\ UNCHANGED graphVars

NextVal == CallOpEquals \/ CallIsFalse

SpecVal == InitVal /\ [][NextVal]_vars

\* va.toHash() and vb.toHash(), as the hash table computes them for two keys
CallToHash ==
    /\ pc = "val"
    /\ hashRes = <<>>
    /\ hashRes' = <<toHash(va), toHash(vb)>>
    /\ UNCHANGED <<pc, wbuild, rbuild, out, dPos, va, vb, eqRes, falseRes>>
    /\ UNCHANGED intVars
    /\ UNCHANGED libVars
    /\ UNCHANGED graphVars

NextHash == CallOpEquals \/ CallToHash

SpecHash == InitVal /\ [][NextHash]_vars

\* C27: two CrocValues that are equal under opEquals have equal toHash
\* results, whatever their type, 0.0 and -0.0 included.
HashConsistent ==
    (eqRes = <<TRUE>> /\ hashRes # <<>>) => hashRes[1] = hashRes[2]

\* C9: values of different types are never equal; two values of the same
\* GC-managed type are equal exactly when they point to the same object.
EqualityByTypeAndIdentity ==
    (pc = "val" /\ eqRes # <<>>) =>
        /\ va.type # vb.type => eqRes[1] = FALSE
        /\ (va.type = vb.type /\ isGCObject(va)) => (eqRes[1] <=> va.m = vb.m)

\* C9 witness: Int 1 was compared with Float 1.0
EqualityWitness ==
    /\ pc = "val"
    /\ va = IntVal(1) /\ vb = FloatVal(Float(0, ExpBias, 0))
    /\ eqRes = <<FALSE>>

\* C10: null, false, Int 0, Float 0.0 and Float -0.0 are false, every other
\* value is true.
FalsyValues ==
    {nullValue, BoolVal(FALSE), IntVal(0), FloatVal(Float(0, 0, 0)), FloatVal(Float(1, 0, 0))}

ExactlyFiveFalsy ==
    (pc = "val" /\ falseRes # <<>>) => (falseRes[1] <=> va \in FalsyValues)

\* C10 witness: Float -0.0 was found false
FalsyWitness ==
    /\ pc = "val"
    /\ va = FloatVal(Float(1, 0, 0))
    /\ falseRes = <<TRUE>>

-----------------------------------------------------------------------------
(* Integer codec specification: a script writes ints with                  *)
(* Serializer._integer and reads them back with Deserializer._integer      *)

\* ints around every 7-bit group boundary, both signs, and the extremes
IntSamples ==
    LET W == IntBitSize(NativeBuild)
    IN {Zero, MinusOne(W), {W - 1}, 0 .. (W - 2)}
        \cup {{k} : k \in Bits(W)}                   \* 2^k (intMin at k = W-1)
        \cup {0 .. k : k \in Bits(W)}                \* 2^(k+1) - 1
        \cup {Bits(W) \ (0 .. k) : k \in Bits(W)}    \* -2^(k+1)
        \cup {Bits(W) \ {k} : k \in Bits(W)}         \* -2^k - 1
        \cup {{i \in Bits(W) : i % 2 = 0}, {i \in Bits(W) : i % 2 = 1}}

\* ints written after the first one, so that a read can over- or under-run
TailSamples == {Zero, MinusOne(IntBitSize(NativeBuild)), {6}, {0, 7, 62}}

InitInt ==
    /\ pc = "int"
    /\ wbuild = NativeBuild /\ rbuild = NativeBuild
    /\ out = <<>> /\ dPos = 0
    /\ \E a \in IntSamples, b \in TailSamples : ivals = <<a, b>>
    /\ nwritten = 0
    /\ ires = <<>>
    /\ ValIdle
    /\ GraphIdle
    /\ LibIdle
\* Serializer._integer(ivals[nwritten + 1])
IntegerWrite ==
    /\ pc = "int"
    /\ nwritten < Len(ivals)
    /\ out' = out \o SInteger(ivals[nwritten + 1], IntBitSize(wbuild))
    /\ nwritten' = nwritten + 1
    /\ UNCHANGED <<pc, wbuild, rbuild, dPos, ivals, ires>>
    /\ UNCHANGED valVars
    /\ UNCHANGED libVars
    /\ UNCHANGED graphVars

\* Deserializer._integer()
IntegerRead ==
    /\ pc = "int"
    /\ nwritten = Len(ivals)
    /\ Len(ires) < Len(ivals)
    /\ LET r == DInteger(out, dPos, IntBitSize(rbuild))
       IN /\ ires' = Append(ires, [val |-> r.val, err |-> r.err])
          /\ dPos' = r.pos
    /\ UNCHANGED <<pc, wbuild, rbuild, out, ivals, nwritten>>
    /\ UNCHANGED valVars
    /\ UNCHANGED libVars
    /\ UNCHANGED graphVars

NextInt == IntegerWrite \/ IntegerRead

SpecInt == InitInt /\ [][NextInt]_vars

\* byte length of the encodings of the first k written ints
RECURSIVE EncLen(_)
EncLen(k) ==
    IF k = 0 THEN 0
    ELSE EncLen(k - 1) + Len(SInteger(ivals[k], IntBitSize(wbuild)))

\* C5: Deserializer._integer reading what Serializer._integer(v) wrote
\* returns v and consumes exactly the bytes of v; every written byte but the
\* last has the continuation bit set, the last has it clear, and an encoding
\* shorter than the int width ends in a byte whose bit 0x40 is the sign of v.
IntegerRoundTrip ==
    pc = "int" =>
        /\ \A k \in 1 .. Len(ires) : ires[k] = [val |-> ivals[k], err |-> ""]
        /\ dPos = EncLen(Len(ires))
        /\ \A k \in 1 .. nwritten :
              LET W == IntBitSize(wbuild)
                  enc == SubSeq(out, EncLen(k - 1) + 1, EncLen(k))
              IN /\ Len(enc) >= 1 /\ Len(enc) * 7 < W + 7
                 /\ \A i \in 1 .. Len(enc) : (enc[i] >= 128) <=> (i < Len(enc))
                 /\ \A i \in 1 .. Len(enc), j \in 0 .. 6 :
                       7 * (i - 1) + j < W =>
                          ((j \in BitsOfByte(enc[i])) <=> ((7 * (i - 1) + j) \in ivals[k]))
                 /\ Len(enc) * 7 < W =>
                       (Bit40(enc[Len(enc)]) <=> ((W - 1) \in ivals[k]))

\* C5 witness: intMin (ten bytes) and a following int were written and read
IntegerRoundTripWitness ==
    /\ pc = "int"
    /\ Len(ires) = 2
    /\ ivals[1] = {IntBitSize(wbuild) - 1}
    /\ Len(out) > 10

-----------------------------------------------------------------------------
(* Graphs of heap objects *)

\* objects whose data are values
IsContainer(o) == o.type \in {TTable, TArray, TNamespace, TInstance}

RECURSIVE EdgesFrom(_, _)
EdgesFrom(h, a) ==
    IF a > Len(h) THEN 0
    ELSE (IF IsContainer(h[a]) THEN Len(h[a].data) ELSE 0) + EdgesFrom(h, a + 1)

Edges(h) == EdgesFrom(h, 1)

\* values that are pointers into the heap (strings are held by content)
HeapVal(v) == isGCObject(v) /\ v.type # TString

\* the heap objects an object points to; a namespace or an instance also
\* points to its parent
KidsOf(h, a) ==
    LET o == h[a]
    IN (IF o.type = TArray
        THEN {o.data[i].m : i \in {j \in 1 .. Len(o.data) : HeapVal(o.data[j])}}
        ELSE IF IsContainer(o)
        THEN {o.data[i][1].m : i \in {j \in 1 .. Len(o.data) : HeapVal(o.data[j][1])}}
                \cup {o.data[i][2].m : i \in {j \in 1 .. Len(o.data) : HeapVal(o.data[j][2])}}
        ELSE {})
       \cup (IF o.type \in {TNamespace, TInstance} /\ o.parent # 0 THEN {o.parent} ELSE {})

\* the transients table holds a non-null replacement for v
Replaced(tr, v) == TableGet(tr, v).type # TNull

RECURSIVE ReachFrom(_, _, _)
ReachFrom(h, tr, S) ==
    LET T == S \cup {b \in UNION {KidsOf(h, a) : a \in S} : ~Replaced(tr, ObjVal(h, b))}
    IN IF T = S THEN S ELSE ReachFrom(h, tr, T)

\* the heap objects of the graph rooted at v once the values with a
\* replacement in tr are taken out (the replacements of the model are not
\* heap objects)
ReachObjs(h, tr, v) ==
    IF ~HeapVal(v) \/ Replaced(tr, v) THEN {} ELSE ReachFrom(h, tr, {v.m})

\* v and w can stand at corresponding places of two equal graphs
LocalMatch(v, w) == v.type = w.type /\ (HeapVal(v) \/ Same(v, w))

\* objects a and b have the same shape and equal non-object parts
ObjMatch(h, a, b) ==
    /\ h[a].type = h[b].type
    /\ Len(h[a].data) = Len(h[b].data)
    /\ CASE h[a].type = TArray ->
                \A i \in 1 .. Len(h[a].data) : LocalMatch(h[a].data[i], h[b].data[i])
         [] h[a].type = TTable ->
                \A i \in 1 .. Len(h[a].data) :
                    LocalMatch(h[a].data[i][2], TableGet(h[b].data, h[a].data[i][1]))
         [] OTHER -> h[a] = h[b]

\* the pairs of objects at corresponding places below a and b (table keys
\* of the model are not heap objects)
PairKids(h, a, b) ==
    IF h[a].type # h[b].type THEN {}
    ELSE IF h[a].type = TArray
    THEN {<<h[a].data[i].m, h[b].data[i].m>> :
            i \in {j \in 1 .. Len(h[a].data) :
                     j <= Len(h[b].data) /\ HeapVal(h[a].data[j]) /\ HeapVal(h[b].data[j])}}
    ELSE IF h[a].type = TTable
    THEN {<<h[a].data[i][2].m, TableGet(h[b].data, h[a].data[i][1]).m>> :
            i \in {j \in 1 .. Len(h[a].data) :
                     HeapVal(h[a].data[j][2]) /\ HeapVal(TableGet(h[b].data, h[a].data[j][1]))}}
    ELSE {}

RECURSIVE PairClosure(_, _)
PairClosure(h, S) ==
    LET T == S \cup UNION {PairKids(h, p[1], p[2]) : p \in S}
    IN IF T = S THEN S ELSE PairClosure(h, T)

\* the graphs rooted at v and w are structurally equal, and the
\* correspondence of their objects is one-to-one: two places hold the same
\* object in one graph exactly when they do in the other
Isomorphic(h, v, w) ==
    /\ LocalMatch(v, w)
    /\ HeapVal(v) =>
          LET P == PairClosure(h, {<<v.m, w.m>>})
          IN /\ \A p \in P : ObjMatch(h, p[1], p[2])
             /\ \A p, q \in P : (p[1] = q[1]) <=> (p[2] = q[2])

\* the graph rooted at v holds only null, bool, int, float, string, array
\* and table values
PlainGraph(h, v) ==
    /\ ~isGCObject(v) \/ v.type \in {TString, TTable, TArray}
    /\ \A a \in ReachObjs(h, <<>>, v) : h[a].type \in {TTable, TArray}

-----------------------------------------------------------------------------
(* Graph specification: a script builds tables, arrays and memblocks, fills *)
(* a transients table, calls serializeGraph on a memblock stream and then   *)
(* deserializeGraph on the same stream with the inverse transients table    *)

MaxObjs == 2
MaxEdges == 2
MaxTrans == 1

\* values a script stores besides objects
Prims == <<nullValue, IntVal(1), StringVal(StrSelf)>>
\* keys a script uses in tables
Keys == <<StringVal(StrSelf), IntVal(1)>>
\* values a script uses as stand-ins in the transients table
Replacements == <<BoolVal(FALSE), IntVal(0), StringVal(StrT)>>
\* contents of a new memblock
MemblockData == <<7, 9>>

Candidates(h) == Prims \o [a \in 1 .. Len(h) |-> ObjVal(h, a)]

\* values a script hands to serializeGraph or enters in the transients table
Roots(h) == <<StringVal(StrSelf)>> \o [a \in 1 .. Len(h) |-> ObjVal(h, a)]

InitGraph ==
    /\ pc = "build"
    /\ wbuild = NativeBuild /\ rbuild = NativeBuild
    /\ out = <<>> /\ dPos = 0
    /\ IntIdle /\ ValIdle /\ GraphIdle
    /\ LibIdle
Allocated(obj) ==
    /\ pc = "build"
    /\ Len(heap) < MaxObjs
    /\ heap' = Append(heap, obj)
    /\ UNCHANGED <<pc, wbuild, rbuild, out, dPos, trans, root, ser, des>>
    /\ UNCHANGED intVars
    /\ UNCHANGED valVars
    /\ UNCHANGED libVars
    /\ UNCHANGED mres

\* {}
NewTable == Allocated(NewObj(TTable))

\* []
NewArray == Allocated(NewObj(TArray))

\* memblock.new, or a memblock viewing foreign data
NewMemblock ==
    \E own \in BOOLEAN :
        Allocated([NewObj(TMemblock) EXCEPT !.data = MemblockData, !.ownData = own])

\* a.append(v), v one of vals
ArrayAppendFrom(vals) ==
    \E a \in 1 .. Len(heap), i \in 1 .. Len(vals) :
        /\ pc = "build"
        /\ heap[a].type = TArray
        /\ Edges(heap) < MaxEdges
        /\ heap' = [heap EXCEPT ![a].data = Append(@, vals[i])]
        /\ UNCHANGED <<pc, wbuild, rbuild, out, dPos, trans, root, ser, des>>
        /\ UNCHANGED intVars
        /\ UNCHANGED valVars
        /\ UNCHANGED libVars
        /\ UNCHANGED mres

\* a.append(v)
ArrayAppend == ArrayAppendFrom(Candidates(heap))

\* t[k] = v
TableAssign ==
    \E t \in 1 .. Len(heap), k \in 1 .. Len(Keys), i \in 1 .. Len(Candidates(heap)) :
        /\ pc = "build"
        /\ heap[t].type = TTable
        /\ Edges(heap) < MaxEdges
        /\ Candidates(heap)[i].type # TNull
        /\ heap' = [heap EXCEPT ![t].data = TableSet(@, Keys[k], Candidates(heap)[i])]
        /\ UNCHANGED <<pc, wbuild, rbuild, out, dPos, trans, root, ser, des>>
        /\ UNCHANGED intVars
        /\ UNCHANGED valVars
        /\ UNCHANGED libVars
        /\ UNCHANGED mres

\* transients[k] = r.  The table stays one-to-one and free of chains, as the
\* documentation of serializeGraph demands of its caller.
SetTransient ==
    \E i \in 1 .. Len(Roots(heap)), j \in 1 .. Len(Replacements) :
        LET k == Roots(heap)[i]
            r == Replacements[j]
        IN /\ pc = "build"
           /\ Len(trans) < MaxTrans
           /\ k.type # TNull
           /\ ~HasKey(trans, k) /\ ~HasKey(trans, r)
           /\ \A n \in 1 .. Len(trans) : ~Same(trans[n][2], r) /\ ~Same(trans[n][2], k)
           /\ ~Same(k, r)
           /\ trans' = TableSet(trans, k, r)
           /\ UNCHANGED <<pc, wbuild, rbuild, out, dPos, heap, root, ser, des>>
           /\ UNCHANGED intVars
           /\ UNCHANGED valVars
           /\ UNCHANGED libVars
           /\ UNCHANGED mres

\* serialization.serializeGraph(val, transients, output)
SerializeGraph ==
    \E i \in 1 .. Len(Roots(heap)) :
        LET val == Roots(heap)[i]
            s == WriteGraph(Env(heap, trans, wbuild), out, val)
        IN /\ pc = "build"
           /\ out' = s.out
           /\ ser' = SerResult(s)
           /\ root' = val
           /\ pc' = "written"
           /\ UNCHANGED <<wbuild, rbuild, dPos, heap, trans, des>>
           /\ UNCHANGED intVars
           /\ UNCHANGED valVars
           /\ UNCHANGED libVars
           /\ UNCHANGED mres

\* serialization.deserializeGraph(revTransients, input), the stream rewound
\* to where serializeGraph began
DeserializeGraph ==
    LET d == ReadGraph(Env(heap, Inverse(trans), rbuild), out, dPos, heap)
    IN /\ pc = "written"
       /\ ser.err = ""
       /\ heap' = d.heap
       /\ dPos' = d.pos
       /\ des' = DesResult(d)
       /\ pc' = "read"
       /\ UNCHANGED <<wbuild, rbuild, out, trans, root, ser>>
       /\ UNCHANGED intVars
       /\ UNCHANGED valVars
       /\ UNCHANGED libVars
       /\ UNCHANGED mres

NextGraph ==
    \/ NewTable
    \/ NewArray
    \/ NewMemblock
    \/ ArrayAppend
    \/ TableAssign
    \/ SetTransient
    \/ SerializeGraph
    \/ DeserializeGraph

SpecGraph == InitGraph /\ [][NextGraph]_vars

\* C1: without transients, a graph of null, bool, int, string, array and
\* table values is read back structurally equal, shared objects and cycles
\* kept by identity.
RoundTripIsomorphic ==
    (pc = "read" /\ trans = <<>> /\ PlainGraph(heap, root)) =>
        (des.err = "" /\ Isomorphic(heap, root, des.ret))

\* the _alreadyWritten entries of the history
ObjLog == SelectSeq(ser.log, LAMBDA x : x.ev \in {"new", "backref"})

\* C2: the first encounter of an object assigns it the next sequential ID
\* and every later encounter writes a back-reference to that ID.
BackrefAfterFirstEncounter ==
    pc = "written" =>
        \A j \in 1 .. Len(ObjLog) :
            LET earlier == {i \in 1 .. (j - 1) : Same(ObjLog[i].v, ObjLog[j].v)}
                first == CHOOSE i \in earlier : \A k \in earlier : i <= k
                news == {i \in 1 .. (j - 1) : ObjLog[i].ev = "new"}
            IN IF earlier = {}
               THEN /\ ObjLog[j].ev = "new"
                    /\ ObjLog[j].id = ToInt(Cardinality(news), IntBitSize(wbuild))
               ELSE /\ ObjLog[j].ev = "backref"
                    /\ ObjLog[j].id = ObjLog[first].id

\* the _serialize entries of the history
ValLog == SelectSeq(ser.log, LAMBDA x : x.ev \in {"plain", "transient"})

\* C4: a value is written as a transient exactly when the transients table
\* holds a non-null replacement for it, and a replaced root is read back as
\* the original through the inverse table.
TransientsHonoured ==
    /\ pc \in {"written", "read"} =>
          \A j \in 1 .. Len(ValLog) :
              (ValLog[j].ev = "transient") <=> Replaced(trans, ValLog[j].v)
    /\ (pc = "read" /\ des.err = "" /\ Replaced(trans, root)) => Same(des.ret, root)

\* the objects the Serializer registered, in the order of their IDs
NewLog == SelectSeq(ser.log, LAMBDA x : x.ev = "new")

\* C26: the k-th object the Serializer registers is the k-th object the
\* Deserializer appends to its object table, so that an ID means the same
\* object on both sides, also behind a memblock.
ObjectTablesAligned ==
    (pc = "read" /\ des.err = "") =>
        /\ Len(des.objTable) = Len(NewLog)
        /\ \A k \in 1 .. Len(NewLog) :
              k <= Len(des.objTable) => des.objTable[k].type = NewLog[k].v.type

-----------------------------------------------------------------------------
(* Object kinds specification: a script creates objects of every kind,     *)
(* puts some into arrays and into the transients table, and calls          *)
(* serializeGraph                                                          *)

OpSerializeKinds == {"absent", "function", "true", "false", "other"}

\* a nativeobj pushed by the host
NewNativeObj == Allocated(NewObj(TNativeObj))

\* thread.new
NewThread == Allocated(NewObj(TThread))

\* a script closure, or a function registered by the host
NewFunction ==
    \E native \in BOOLEAN : Allocated([NewObj(TFunction) EXCEPT !.isNative = native])

\* a compiled funcdef, with or without free upvalues, closed already or not
NewFuncDef ==
    \E n \in {0, 1}, cached \in BOOLEAN :
        Allocated([NewObj(TFuncDef) EXCEPT !.upvals = n, !.cachedFunc = cached])

\* a namespace without parent
NewNamespace == Allocated(NewObj(TNamespace))

\* a class declaration, with or without a finalizer, frozen or not
NewClass ==
    \E frozen \in BOOLEAN, fin \in BOOLEAN :
        Allocated([NewObj(TClass) EXCEPT !.isFrozen = frozen, !.finalizer = fin])

\* c(): instantiating a class freezes it
NewInstance ==
    \E c \in 1 .. Len(heap), ops \in OpSerializeKinds :
        /\ pc = "build"
        /\ Len(heap) < MaxObjs
        /\ heap[c].type = TClass
        /\ heap' = Append([heap EXCEPT ![c].isFrozen = TRUE],
                          [NewObj(TInstance) EXCEPT !.parent = c, !.opSerialize = ops])
        /\ UNCHANGED <<pc, wbuild, rbuild, out, dPos, trans, root, ser, des>>
        /\ UNCHANGED intVars
        /\ UNCHANGED valVars
        /\ UNCHANGED libVars
        /\ UNCHANGED mres

NextKinds ==
    \/ NewNativeObj
    \/ NewThread
    \/ NewFunction
    \/ NewFuncDef
    \/ NewNamespace
    \/ NewClass
    \/ NewInstance
    \/ NewMemblock
    \/ NewArray
    \/ ArrayAppend
    \/ SetTransient
    \/ SerializeGraph

SpecKinds == InitGraph /\ [][NextKinds]_vars

\* what the documentation of serializeGraph lists as not serializable
Unserializable(h, a) ==
    \/ h[a].type \in {TNativeObj, TThread}
    \/ (h[a].type = TFunction /\ h[a].isNative)
    \/ (h[a].type = TMemblock /\ ~h[a].ownData)
    \/ (h[a].type = TClass /\ h[a].finalizer)
    \/ (h[a].type = TInstance /\ h[h[a].parent].finalizer)

\* C3: serializeGraph throws whenever the graph, the values with a
\* replacement in the transients table taken out, holds a nativeobj, a
\* thread, a native function, a memblock that does not own its data, or a
\* class or instance with a finalizer.
UnserializableRejected ==
    (pc = "written" /\ \E a \in ReachObjs(heap, trans, root) : Unserializable(heap, a))
        => ser.err # ""

-----------------------------------------------------------------------------
(* Signature specification: a graph written by one build of Croc is read   *)
(* by another                                                              *)

\* builds that write: either byte order, 32 or 64 bit words, stock or
\* redefined int and float sizes, this or the previous format version
WriterBuilds ==
    [Endianness : {0, 1}, PlatformBits : {32, 64}, intSize : {4, intSize},
     floatSize : {4, floatSize}, SerialVersion : {SerialVersion - 1, SerialVersion}]

\* builds that read: the stock implementation on either kind of machine
ReaderBuilds == {StockBuild(endian, bits) : endian \in {0, 1}, bits \in {32, 64}}

InitSig ==
    /\ pc = "build"
    /\ wbuild \in WriterBuilds /\ rbuild \in ReaderBuilds
    /\ out = <<>> /\ dPos = 0
    /\ IntIdle /\ ValIdle /\ GraphIdle
    /\ LibIdle
NextSig ==
    \/ NewArray
    \/ SerializeGraph
    \/ DeserializeGraph

SpecSig == InitSig /\ [][NextSig]_vars

\* C6: the signature written by writeGraph is five bytes long.
SignatureFiveBytes ==
    pc \in {"written", "read"} => ser.sigEnd - ser.start = 5

\* C7: a stream whose signature differs in any field from the values of the
\* reading build is rejected with a ValueError, no byte of the graph read
\* and no object entered in the object table.
SignatureMismatchRejected ==
    (pc = "read" /\ wbuild # rbuild) =>
        /\ des.err = "ValueError"
        /\ des.objTable = <<>>
        /\ dPos <= ser.sigEnd
        /\ Len(heap) <= MaxObjs

\* C7 witness: an array written by a build of the previous format version,
\* equal in every other field, was rejected
SignatureMismatchWitness ==
    /\ pc = "read"
    /\ wbuild.SerialVersion # rbuild.SerialVersion
    /\ [wbuild EXCEPT !.SerialVersion = rbuild.SerialVersion] = rbuild
    /\ root.type = TArray
    /\ des.err = "ValueError"

-----------------------------------------------------------------------------
(* Module specification: funcdefs and arrays are built, a stream is written *)
(* by serializeModule or by hand, and deserializeModule reads it            *)

\* module names handed to serializeModule
ModuleNames == <<StringVal(StrSelf), StringVal(StrA)>>

\* four bytes that are not the magic number
NotFourCC == <<67, 114, 111, 100>>

InitModule ==
    /\ pc = "build"
    /\ wbuild = NativeBuild /\ rbuild = NativeBuild
    /\ out = <<>> /\ dPos = 0
    /\ IntIdle /\ ValIdle /\ GraphIdle
    /\ LibIdle
\* four bytes written to the empty stream, ahead of a graph
WriteFourCC ==
    \E buf \in {ModuleFourCC, NotFourCC} :
        /\ pc = "build"
        /\ out = <<>>
        /\ out' = buf
        /\ UNCHANGED <<pc, wbuild, rbuild, dPos>>
        /\ UNCHANGED intVars
        /\ UNCHANGED valVars
        /\ UNCHANGED libVars
        /\ UNCHANGED graphVars

\* serialization.serializeModule(mod, name, output)
CallSerializeModule ==
    \E a \in 1 .. Len(heap), i \in 1 .. Len(ModuleNames) :
        LET r == serializeModule(wbuild, out, heap, ObjVal(heap, a), ModuleNames[i])
        IN /\ pc = "build"
           /\ out = <<>>
           /\ heap[a].type = TFuncDef
           /\ out' = r.out
           /\ heap' = r.heap
           /\ ser' = SerResult(r.run)
           /\ root' = IF r.err = "" THEN Val(TArray, Len(r.heap)) ELSE root
           /\ mres' = [op |-> "serializeModule", via |-> "none", err |-> r.err,
                       mod |-> r.mod, name |-> r.name]
           /\ pc' = IF r.err = "" THEN "written" ELSE "failed"
           /\ UNCHANGED <<wbuild, rbuild, dPos, trans, des>>
           /\ UNCHANGED intVars
           /\ UNCHANGED valVars
           /\ UNCHANGED libVars

\* serialization.deserializeModule(input), the stream rewound to its start
CallDeserializeModule ==
    LET r == deserializeModule(rbuild, out, dPos, heap)
    IN /\ pc = "written"
       /\ ser.err = ""
       /\ heap' = r.heap
       /\ dPos' = r.pos
       /\ des' = DesResult(r.run)
       /\ mres' = [op |-> "deserializeModule", via |-> mres.op, err |-> r.err,
                   mod |-> r.mod, name |-> r.name]
       /\ pc' = "read"
       /\ UNCHANGED <<wbuild, rbuild, out, trans, root, ser>>
       /\ UNCHANGED intVars
       /\ UNCHANGED valVars
       /\ UNCHANGED libVars

\* a.append(v), v a name or an object
AppendNameOrObject == ArrayAppendFrom(Roots(heap))

NextModule ==
    \/ NewFuncDef
    \/ NewArray
    \/ AppendNameOrObject
    \/ WriteFourCC
    \/ SerializeGraph
    \/ CallSerializeModule
    \/ CallDeserializeModule

SpecModule == InitModule /\ [][NextModule]_vars

\* the stream begins with the magic number
HasMagic == Len(out) >= 4 /\ SubSeq(out, 1, 4) = ModuleFourCC

\* the graph that follows the first four bytes of the stream, read afresh
GraphAfterMagic == ReadGraph(Env(heap, <<>>, rbuild), out, 4, heap)

\* the graph that follows the first four bytes has as its root a two-element
\* array of a string and a funcdef
IsNameAndFuncdef ==
    LET g == GraphAfterMagic
    IN /\ g.err = ""
       /\ g.ret.type = TArray
       /\ Len(g.heap[g.ret.m].data) = 2
       /\ g.heap[g.ret.m].data[1].type = TString
       /\ g.heap[g.ret.m].data[2].type = TFuncDef

\* the funcdef of that array is cacheable and not cached
FuncdefIsFresh ==
    LET g == GraphAfterMagic
        mod == g.heap[g.ret.m].data[2]
    IN isCacheable(g.heap, mod) /\ ~isCached(g.heap, mod)

\* C8: serializeModule throws ValueError and leaves the stream empty exactly
\* when the funcdef is not cacheable or is cached, and otherwise writes the
\* magic "Croc" followed by the graph of the array [name, funcdef];
\* deserializeModule returns the funcdef and the name exactly when the magic
\* matches, the root is a two-element array of a string and a funcdef, and
\* the funcdef is cacheable and not cached, and throws ValueError otherwise.
ModuleFormat ==
    /\ mres.op = "serializeModule" =>
          /\ mres.err = (IF ~isCacheable(heap, mres.mod) \/ isCached(heap, mres.mod)
                         THEN "ValueError" ELSE "")
          /\ mres.err # "" => out = <<>> /\ pc = "failed"
          /\ mres.err = "" =>
                /\ HasMagic /\ Len(out) > 4 /\ ser.start = 4
                /\ IsNameAndFuncdef
                /\ heap[root.m].data = <<mres.name, mres.mod>>
                /\ LET g == GraphAfterMagic
                   IN /\ g.heap[g.ret.m].data[1] = mres.name
                      /\ g.heap[g.heap[g.ret.m].data[2].m].name = heap[mres.mod.m].name
    /\ mres.op = "deserializeModule" =>
          /\ mres.err = (IF HasMagic /\ IsNameAndFuncdef /\ FuncdefIsFresh
                         THEN "" ELSE "ValueError")
          /\ mres.err = "" =>
                /\ mres.mod.type = TFuncDef /\ mres.name.type = TString
                /\ isCacheable(heap, mres.mod) /\ ~isCached(heap, mres.mod)
                /\ heap[des.ret.m].data = <<mres.name, mres.mod>>
          /\ mres.via = "serializeModule" =>
                /\ mres.err = ""
                /\ mres.name = heap[root.m].data[1]
                /\ heap[mres.mod.m].name = heap[heap[root.m].data[2].m].name

\* C8 witness: a module written by serializeModule was read back by
\* deserializeModule, which returned its funcdef and name
ModuleFormatWitness ==
    /\ pc = "read"
    /\ mres.op = "deserializeModule" /\ mres.via = "serializeModule"
    /\ mres.err = ""
    /\ mres.mod.type = TFuncDef
    /\ mres.name = StringVal(StrSelf)

-----------------------------------------------------------------------------
(* Threads: CrocThread (croc/types.d) and the coroutine scheduler *)

Initial == "Initial"
Waiting == "Waiting"
Running == "Running"
Suspended == "Suspended"
Dead == "Dead"

State == {Initial, Waiting, Running, Suspended, Dead}

MaxThreads == 3
MaxResumes == 4

\* the bodies a coroutine is created with: Producer yields 1, 2, 3 and then
\* returns; a Script body may do anything a thread can do
Producer == "Producer"
Script == "Script"
CoroFuncs == {Producer, Script}
ProducerYields == <<1, 2, 3>>

newThreadRunning(f) ==
    [coroFunc |-> f, state |-> Running, resumes |-> 0, resumedBy |-> 0, yielded |-> <<>>]

\* CrocThread: coroFunc, state = State.Initial
newThread(f) ==
    [coroFunc |-> f, state |-> Initial, resumes |-> 0, resumedBy |-> 0, yielded |-> <<>>]

\* the main thread of a VM: no coroFunc, executing
mainThread ==
    [coroFunc |-> "main", state |-> Running, resumes |-> 0, resumedBy |-> 0, yielded |-> <<>>]

Sched(ts, cs, c, r) == [threads |-> ts, callers |-> cs, cur |-> c, res |-> r]

ThreadOk(op, from, to, v) ==
    <<[op |-> op, from |-> from, to |-> to, value |-> v, outcome |-> "ok"]>>

ThreadErr(op, from, to) ==
    <<[op |-> op, from |-> from, to |-> to, value |-> 0, outcome |-> "error"]>>

resumable(th) == th.state \in {Initial, Suspended}

\* resume(t): the running thread waits, t runs; resuming a thread that is
\* neither Initial nor Suspended is an error in the running thread
resume(ts, cs, c, t) ==
    IF resumable(ts[t])
    THEN Sched([ts EXCEPT ![c].state = Waiting,
                          ![t].state = Running,
                          ![t].resumes = @ + 1,
                          ![t].resumedBy = c],
               Append(cs, c), t, ThreadOk("resume", c, t, 0))
    ELSE Sched(ts, cs, c, ThreadErr("resume", c, t))

ResumerOutermost(cs) == cs[1]

\* the resumer of the running thread: the thread that resumed most recently
Resumer(cs) == cs[Len(cs)]

\* the running thread leaves with state st (Suspended on yield, Dead when it
\* finishes or errors) and its resumer runs again
leave(ts, cs, c, st, r) ==
    Sched([ts EXCEPT ![c].state = st, ![Resumer(cs)].state = Running],
          SubSeq(cs, 1, Len(cs) - 1), Resumer(cs), r)

\* yield(v): only a resumed thread can yield; the main thread has no resumer
yield(ts, cs, c, v) ==
    IF cs = <<>>
    THEN Sched(ts, cs, c, ThreadErr("yield", c, c))
    ELSE leave([ts EXCEPT ![c].yielded =
                   IF ts[c].coroFunc = Producer THEN Append(@, v) ELSE @],
               cs, c, Suspended, ThreadOk("yield", c, Resumer(cs), v))

\* the coroutine's function returns
finish(ts, cs, c) == leave(ts, cs, c, Dead, ThreadOk("return", c, Resumer(cs), 0))

\* the coroutine's function throws: the error propagates to the resumer
fail(ts, cs, c) == leave(ts, cs, c, Dead, ThreadErr("throw", c, Resumer(cs)))

-----------------------------------------------------------------------------
(* SpecThreads: one VM; the running thread creates, resumes, yields, returns *)

InitThreads ==
    /\ pc = "threads"
    /\ wbuild = NativeBuild /\ rbuild = NativeBuild
    /\ out = <<>> /\ dPos = 0
    /\ IntIdle /\ ValIdle /\ GraphIdle
    /\ ModIdle /\ StrIdle
    /\ threads = <<mainThread>>
    /\ callers = <<>>
    /\ cur = 1
    /\ thrRes = <<>>

SetSched(s) ==
    /\ threads' = s.threads
    /\ callers' = s.callers
    /\ cur' = s.cur
    /\ thrRes' = s.res
    /\ UNCHANGED coreVars
    /\ UNCHANGED modVars
    /\ UNCHANGED strVars

IsScript == pc = "threads" /\ threads[cur].coroFunc # Producer

IsProducer == pc = "threads" /\ threads[cur].coroFunc = Producer

ThreadNew ==
    /\ IsScript
    /\ Len(threads) < MaxThreads
    /\ \E f \in CoroFuncs :
          SetSched(Sched(Append(threads, newThread(f)), callers, cur,
                         ThreadOk("new", cur, Len(threads) + 1, 0)))

ThreadResume ==
    /\ IsScript
    /\ \E t \in 1 .. Len(threads) :
          /\ resumable(threads[t]) => threads[t].resumes < MaxResumes
          /\ SetSched(resume(threads, callers, cur, t))

ThreadYield ==
    /\ IsScript
    /\ SetSched(yield(threads, callers, cur, 0))

ThreadReturn ==
    /\ IsScript
    /\ callers # <<>>
    /\ SetSched(finish(threads, callers, cur))

ThreadThrow ==
    /\ IsScript
    /\ callers # <<>>
    /\ SetSched(fail(threads, callers, cur))

\* the body of the producer: yield 1; yield 2; yield 3; return
ProducerStep ==
    /\ IsProducer
    /\ IF Len(threads[cur].yielded) < Len(ProducerYields)
       THEN SetSched(yield(threads, callers, cur,
                           ProducerYields[Len(threads[cur].yielded) + 1]))
       ELSE SetSched(finish(threads, callers, cur))

NextThreads ==
    \/ ThreadNew
    \/ ThreadResume
    \/ ThreadYield
    \/ ThreadReturn
    \/ ThreadThrow
    \/ ProducerStep

SpecThreads == InitThreads /\ [][NextThreads]_vars

ThreadIds == 1 .. Len(threads)

LastOp(op) == thrRes' # <<>> /\ thrRes'[1].op = op /\ thrRes'[1].outcome = "ok"

LastLeft(t) == thrRes' # <<>> /\ thrRes'[1].from = t /\ thrRes'[1].op \in {"yield", "return", "throw"}

\* the step taken by thread t is one of the legal transitions
LegalTransition(t) ==
    \/ threads'[t].state = threads[t].state
    \/ /\ threads[t].state = Initial /\ threads'[t].state = Running
       /\ LastOp("resume") /\ thrRes'[1].to = t
    \/ /\ threads[t].state = Running /\ threads'[t].state = Suspended
       /\ LastOp("yield") /\ thrRes'[1].from = t
    \/ /\ threads[t].state = Running /\ threads'[t].state = Dead
       /\ thrRes'[1].op \in {"return", "throw"} /\ thrRes'[1].from = t
    \/ /\ threads[t].state = Running /\ threads'[t].state = Waiting
       /\ LastOp("resume") /\ thrRes'[1].from = t /\ thrRes'[1].to # t
    \/ /\ threads[t].state = Waiting /\ threads'[t].state = Running
       /\ thrRes'[1].op \in {"yield", "return", "throw"} /\ thrRes'[1].to = t
    \/ /\ threads[t].state = Suspended /\ threads'[t].state = Running
       /\ LastOp("resume") /\ thrRes'[1].to = t

LegalStep ==
    /\ Len(threads') >= Len(threads)
    /\ \A t \in 1 .. Len(threads') :
          IF t > Len(threads)
          THEN threads'[t].state = Initial
          ELSE /\ LegalTransition(t)
               /\ threads[t].state = Dead => threads'[t].state = Dead

ProducerLife ==
    \A t \in ThreadIds :
       threads[t].coroFunc = Producer =>
          /\ threads[t].state = Dead => threads[t].resumes = 4
          /\ threads[t].state = Dead => threads[t].yielded = <<1, 2, 3>>
          /\ threads[t].resumes = 4 => threads[t].state \in {Running, Dead}
          /\ threads[t].resumes <= 4

\* C11: a thread is created Initial and changes state only along the legal
\* transitions; a Dead thread stays Dead whatever is done to it, a further
\* resume included; the coroutine that yields 1, 2, 3 and returns is Dead
\* exactly after its fourth resume.
ThreadLifecycle == []ProducerLife /\ [][LegalStep]_vars

\* a producer was resumed four times, is Dead, and was then resumed again in vain
ThreadLifecycleWitness ==
    /\ thrRes # <<>>
    /\ thrRes[1].op = "resume" /\ thrRes[1].outcome = "error"
    /\ threads[thrRes[1].to].coroFunc = Producer
    /\ threads[thrRes[1].to].state = Dead
    /\ threads[thrRes[1].to].resumes = 4
    /\ threads[thrRes[1].to].yielded = <<1, 2, 3>>

RunningThreads == {t \in ThreadIds : threads[t].state = Running}

\* the thread that resumed t is Waiting for as long as t or a thread below t runs
ResumerWaits ==
    \A t \in ThreadIds :
       (threads[t].state \in {Running, Waiting} /\ threads[t].resumedBy # 0) =>
          threads[threads[t].resumedBy].state = Waiting

OneRunning == Cardinality(RunningThreads) <= 1

\* a thread that yields, returns or throws hands control to its last resumer
BackToResumer ==
    \A t \in ThreadIds :
       (threads[t].state = Running /\ threads'[t].state \in {Suspended, Dead}) =>
          /\ threads'[threads[t].resumedBy].state = Running
          /\ cur' = threads[t].resumedBy
          /\ thrRes'[1].to = threads[t].resumedBy

\* C12: coroutine nesting is LIFO: a thread that yields, finishes or errors
\* hands control to the thread that most recently resumed it, that resumer is
\* Waiting until then, and at most one thread is Running.
CoroutineLIFO == [](OneRunning /\ ResumerWaits) /\ [][BackToResumer]_vars

\* A resumed B, B resumed C, C yielded back to B and B then yielded back to A
CoroutineLIFOWitness ==
    /\ Len(threads) >= 3
    /\ thrRes # <<>>
    /\ thrRes[1].op = "yield" /\ thrRes[1].from = 2 /\ thrRes[1].to = 1
    /\ threads[2].resumedBy = 1 /\ threads[2].state = Suspended
    /\ threads[3].resumedBy = 2 /\ threads[3].state = Suspended
    /\ threads[3].resumes = 1
    /\ threads[1].state = Running

-----------------------------------------------------------------------------
(* Modules: the module loader (module modules) *)

\* a module name is the sequence of its dot-separated segments
NameA == <<"a">>
NameAB == <<"a", "b">>
NameDocs == <<"docs">>
NamePcre == <<"pcre">>

Names == {NameA, NameAB, NameDocs, NamePcre}

\* the field names of the namespaces: the segments, and a symbol x that a
\* module's top-level function defines
FieldNames == {"a", "b", "docs", "pcre", "x"}

SafeStdlibNames == {NameDocs}
UnsafeStdlibNames == {}
AllStdlibNames == SafeStdlibNames \cup UnsafeStdlibNames
IncludedAddons == {NamePcre}

\* loaders = [customLoad, loadFiles]
NumLoaders == 2

\* what a loader can return for a name: null, a namespace, a funcdef, a native
\* function, a script function, or some other value
LoaderReturns == {"null", "namespace", "funcdef", "native", "script", "int"}

\* what the loaders of the script return for a name, loader by loader; the
\* loaders behind the first one that finds something have nothing for it
ScriptReturns ==
    {rets \in [1 .. NumLoaders -> LoaderReturns \ {"native"}] :
        \A i \in 1 .. NumLoaders - 1 : rets[i] # "null" => rets[i + 1] = "null"}

MaxFrames == 2
MaxCalls == 3

\* name.rpartition('.'): what precedes the last dot, "" when there is none
rpartition(name) == SubSeq(name, 1, Len(name) - 1)

\* a namespace value in a field: 0 is no field, NotNamespace a value that is
\* not a namespace, k > 0 the namespace at address k
NotNamespace == -1
GlobalNs == 1

NoFields == [f \in FieldNames |-> 0]

Namespace(name, parent, fields) == [name |-> name, parent |-> parent, fields |-> fields]

\* hash.newNamespace(name, parent): the new namespace gets the next address
newNamespace(g, name, parent) == Append(g, Namespace(name, parent, NoFields))

\* #ns
NsLen(g, ns) == Cardinality({f \in FieldNames : g[ns].fields[f] # 0})

\* hash.clear(ns)
clear(g, ns) == [g EXCEPT ![ns].fields = NoFields]

SetField(g, ns, f, v) == [g EXCEPT ![ns].fields[f] = v]

ModState(l, ld, p, g) == [loaded |-> l, Loading |-> ld, Prefixes |-> p, globals |-> g]

\* exceptions: the exception first, then its cause, the cause of that one, ...
Exc(kind, msg) == <<[kind |-> kind, msg |-> msg]>>

WithCause(e, cause) == e \o cause

ImportException(msg) == Exc("ImportException", msg)

MsgPrefixLoaded == "there is already a module"
MsgIsPrefix == "other modules use that name as a prefix"
MsgNotNative == "top-level module function must be a native function"
MsgConflictsGlobal == "conflicts with existing global"
MsgTopLevelThrew == "exception thrown from module's top-level function"
MsgCircular == "is being circularly imported"
MsgLoaderType == "expected to return a function, funcdef, namespace, or null"
MsgNothing == "could not find anything to load"
MsgNotLoaded == "Attempting to reload module which has not yet been loaded"
MsgReloadStdlib == "Attempting to reload a standard library or addon"

InLoaded(m, name) == name \in DOMAIN m.loaded /\ m.loaded[name] # 0

RECURSIVE SetLoadedLoop(_, _)
SetLoadedLoop(P, pre) ==
    IF Len(pre) > 0 THEN SetLoadedLoop(P \cup {pre}, rpartition(pre)) ELSE P

setLoaded(m, name, ns) ==
    [m EXCEPT !.loaded[name] = ns,
              !.Prefixes = SetLoadedLoop(@, rpartition(name))]

RECURSIVE CheckPrefixLoop(_, _)
CheckPrefixLoop(m, pre) ==
    IF Len(pre) > 0
    THEN IF InLoaded(m, pre)
         THEN ImportException(MsgPrefixLoaded)
         ELSE CheckPrefixLoop(m, rpartition(pre))
    ELSE <<>>

\* the exception checkNameConflicts throws, <<>> when it returns
checkNameConflicts(m, name) ==
    IF CheckPrefixLoop(m, rpartition(name)) # <<>>
    THEN CheckPrefixLoop(m, rpartition(name))
    ELSE IF name \in m.Prefixes
         THEN ImportException(MsgIsPrefix)
         ELSE <<>>

\* the locals of initModule while it makes the namespace
Walk(g, ns, foundSplit, firstParent, childName, firstChild, err) ==
    [g |-> g, ns |-> ns, foundSplit |-> foundSplit, firstParent |-> firstParent,
     childName |-> childName, firstChild |-> firstChild, err |-> err]

WalkSegment(w, segment) ==
    IF w.err # <<>> THEN w
    ELSE IF w.foundSplit
    THEN Walk(SetField(newNamespace(w.g, segment, w.ns), w.ns, segment, Len(w.g) + 1),
              Len(w.g) + 1, TRUE, w.firstParent, w.childName, w.firstChild, <<>>)
    ELSE IF w.g[w.ns].fields[segment] # 0
    THEN IF w.g[w.ns].fields[segment] = NotNamespace
         THEN [w EXCEPT !.err = ImportException(MsgConflictsGlobal)]
         ELSE [w EXCEPT !.ns = w.g[w.ns].fields[segment]]
    ELSE Walk(newNamespace(w.g, segment, w.ns), Len(w.g) + 1, TRUE,
              w.ns, segment, Len(w.g) + 1, <<>>)

RECURSIVE WalkSegments(_, _)
WalkSegments(w, segs) ==
    IF segs = <<>> THEN w ELSE WalkSegments(WalkSegment(w, Head(segs)), Tail(segs))

MakeNamespace(g, name) == WalkSegments(Walk(g, GlobalNs, FALSE, 0, "", 0, <<>>), name)

ClearExisting(w) == IF NsLen(w.g, w.ns) > 0 THEN [w EXCEPT !.g = clear(w.g, w.ns)] ELSE w

\* the outcome of a call into the library: it returned ns, it threw exc, or it
\* is inside the top-level function of the module with the locals w
Returned(m, ns, called, stage) ==
    [m |-> m, kind |-> "return", ns |-> ns, exc |-> <<>>, called |-> called,
     stage |-> stage, w |-> Walk(<<>>, 0, FALSE, 0, "", 0, <<>>)]

Threw(m, exc, called, stage) ==
    [m |-> m, kind |-> "throw", ns |-> 0, exc |-> exc, called |-> called,
     stage |-> stage, w |-> Walk(<<>>, 0, FALSE, 0, "", 0, <<>>)]

Entered(m, w, called) ==
    [m |-> [m EXCEPT !.globals = w.g], kind |-> "enter", ns |-> w.ns, exc |-> <<>>,
     called |-> called, stage |-> "initModule", w |-> [w EXCEPT !.g = <<>>]]

\* initModule up to the call of topLevel
initModule(m, name, topLevel, called) ==
    IF topLevel = "script"
    THEN Threw(m, Exc("ValueError", MsgNotNative), called, "initModule")
    ELSE Then(MakeNamespace(m.globals, name), LAMBDA w :
            IF w.err # <<>>
            THEN Threw(m, w.err, called, "initModule")
            ELSE Entered(m, ClearExisting(w), called))

\* initModule after topLevel returned
initModuleReturn(m, name, w) ==
    Then(setLoaded(m, name, w.ns), LAMBDA m1 :
        IF w.foundSplit
        THEN [m1 EXCEPT !.globals = SetField(@, w.firstParent, w.childName, w.firstChild)]
        ELSE m1)

initModuleCatchNoCause(e) == ImportException(MsgTopLevelThrew)

\* initModule: catch(e) around the call of topLevel
initModuleCatch(e) == WithCause(ImportException(MsgTopLevelThrew), e)

\* scope(exit) Loading[name] = null
ScopeExit(m, name) == [m EXCEPT !.Loading = @ \ {name}]

RunLoadersLastOnly(m, name, rets, i, called) ==
    IF rets[NumLoaders] \in {"funcdef", "native", "script"}
    THEN initModule(m, name, rets[NumLoaders], <<1, 2>>)
    ELSE Threw(m, ImportException(MsgNothing), <<1, 2>>, "loaders")

\* foreach(i, loader; loaders): rets[i] is what loader i returns for name
RECURSIVE RunLoaders(_, _, _, _, _)
RunLoaders(m, name, rets, i, called) ==
    IF i > NumLoaders
    THEN Threw(m, ImportException(MsgNothing), called, "loaders")
    ELSE IF rets[i] \in {"funcdef", "native", "script"}
    THEN initModule(m, name, rets[i], Append(called, i))
    ELSE IF rets[i] = "namespace"
    THEN Returned(setLoaded([m EXCEPT !.globals = newNamespace(@, name[Len(name)], 0)],
                            name, Len(m.globals) + 1),
                  Len(m.globals) + 1, Append(called, i), "loaders")
    ELSE IF rets[i] # "null"
    THEN Threw(m, Exc("TypeError", MsgLoaderType), Append(called, i), "loaders")
    ELSE RunLoaders(m, name, rets, i + 1, Append(called, i))

\* the scope(exit) of commonLoad runs unless the call is still inside topLevel
AtExit(o, name) == IF o.kind = "enter" THEN o ELSE [o EXCEPT !.m = ScopeExit(@, name)]

commonLoadNoCircularCheck(m, name, rets) ==
    Then([m EXCEPT !.Loading = @ \cup {name}], LAMBDA m1 :
        IF checkNameConflicts(m1, name) # <<>>
        THEN AtExit(Threw(m1, checkNameConflicts(m1, name), <<>>, "conflicts"), name)
        ELSE AtExit(RunLoaders(m1, name, rets, 1, <<>>), name))

commonLoad(m, name, rets) ==
    IF name \in m.Loading
    THEN Threw(m, ImportException(MsgCircular), <<>>, "circular")
    ELSE Then([m EXCEPT !.Loading = @ \cup {name}], LAMBDA m1 :
            IF checkNameConflicts(m1, name) # <<>>
            THEN AtExit(Threw(m1, checkNameConflicts(m1, name), <<>>, "conflicts"), name)
            ELSE AtExit(RunLoaders(m1, name, rets, 1, <<>>), name))

loadAlways(m, name, rets) == commonLoad(m, name, rets)

\* modules.load(name)
load(m, name, rets) ==
    IF m.loaded[name] # 0
    THEN Returned(m, m.loaded[name], <<>>, "loaded")
    ELSE commonLoad(m, name, rets)

reloadAnything(m, name, rets) ==
    IF ~InLoaded(m, name)
    THEN Threw(m, ImportException(MsgNotLoaded), <<>>, "reload")
    ELSE commonLoad(m, name, rets)

\* modules.reload(name)
reload(m, name, rets) ==
    IF ~InLoaded(m, name)
    THEN Threw(m, ImportException(MsgNotLoaded), <<>>, "reload")
    ELSE IF name \in AllStdlibNames \/ name \in IncludedAddons
    THEN Threw(m, ImportException(MsgReloadStdlib), <<>>, "reload")
    ELSE commonLoad(m, name, rets)

-----------------------------------------------------------------------------
(* SpecImport: a script and the top-level functions of the modules it loads *)

MaxCauses == 2

\* the state the standard libraries leave: each has its namespace in _G
StdlibGlobals ==
    <<Namespace("", 0, [NoFields EXCEPT !["docs"] = 2]),
      Namespace("docs", GlobalNs, [NoFields EXCEPT !["x"] = NotNamespace])>>

\* foreach(mod; SafeStdlibNames) setLoaded(mod, _G.(mod))
StdlibLoaded ==
    setLoaded(ModState([n \in Names |-> 0], {}, {}, StdlibGlobals), NameDocs,
              StdlibGlobals[GlobalNs].fields["docs"])

InitImport ==
    /\ pc = "import"
    /\ wbuild = NativeBuild /\ rbuild = NativeBuild
    /\ out = <<>> /\ dPos = 0
    /\ IntIdle /\ ValIdle /\ GraphIdle
    /\ ThrIdle /\ StrIdle
    /\ loaded = StdlibLoaded.loaded
    /\ Loading = StdlibLoaded.Loading
    /\ Prefixes = StdlibLoaded.Prefixes
    /\ globals = StdlibLoaded.globals
    /\ frames = <<>>
    /\ modRes = <<>>
    /\ ncalls = 0

ModNow == ModState(loaded, Loading, Prefixes, globals)

SetMod(m, fs, r, n) ==
    /\ ncalls' = n
    /\ loaded' = m.loaded
    /\ Loading' = m.Loading
    /\ Prefixes' = m.Prefixes
    /\ globals' = m.globals
    /\ frames' = fs
    /\ modRes' = r
    /\ UNCHANGED coreVars
    /\ UNCHANGED thrVars
    /\ UNCHANGED strVars

\* what the loaders that were called returned
Returns(rets, called) == SubSeq(rets, 1, Len(called))

\* a call of modules.load / modules.reload that is inside the top-level function
Frame(op, name, rets, o, before) ==
    [op |-> op, name |-> name, rets |-> Returns(rets, o.called), called |-> o.called, w |-> o.w,
     ns |-> o.ns, before |-> before, imported |-> FALSE]

\* a finished call: what it was given, what it did, the library before and after
Result(op, name, rets, outcome, ns, exc, called, stage, ran, imported, thrown, before, after) ==
    <<[op |-> op, name |-> name, rets |-> rets, outcome |-> outcome, ns |-> ns,
       exc |-> exc, called |-> called, stage |-> stage, ran |-> ran,
       imported |-> imported, thrown |-> thrown, before |-> before, after |-> after]>>

\* the top-level function that is running has called into the library
MarkImport(fs) == IF fs = <<>> THEN fs ELSE [fs EXCEPT ![Len(fs)].imported = TRUE]

Call(op, name, rets, o) ==
    IF o.kind = "enter"
    THEN SetMod(o.m, Append(MarkImport(frames), Frame(op, name, rets, o, ModNow)), modRes,
                ncalls + 1)
    ELSE SetMod(o.m, MarkImport(frames),
                Result(op, name, Returns(rets, o.called), o.kind, o.ns, o.exc, o.called,
                       o.stage, FALSE, FALSE, <<>>, ModNow, o.m),
                ncalls + 1)

CanCall ==
    /\ pc = "import"
    /\ Len(frames) < MaxFrames
    /\ ncalls < MaxCalls

Load ==
    /\ CanCall
    /\ \E name \in Names, rets \in ScriptReturns :
          Call("load", name, rets, load(ModNow, name, rets))

Reload ==
    /\ CanCall
    /\ \E name \in Names, rets \in ScriptReturns :
          Call("reload", name, rets, reload(ModNow, name, rets))

TopFrame == frames[Len(frames)]

Callers == SubSeq(frames, 1, Len(frames) - 1)

\* the top-level function defines a global of its module
Define(m, ns) == [m EXCEPT !.globals = SetField(@, ns, "x", NotNamespace)]

\* the top-level function defines its global and returns: initModule and
\* commonLoad finish
TopLevelReturn ==
    /\ pc = "import"
    /\ frames # <<>>
    /\ Then(ScopeExit(initModuleReturn(Define(ModNow, TopFrame.ns), TopFrame.name, TopFrame.w),
                      TopFrame.name),
            LAMBDA m :
               SetMod(m, Callers,
                      Result(TopFrame.op, TopFrame.name, TopFrame.rets, "return",
                             TopFrame.ns, <<>>, TopFrame.called, "initModule", TRUE,
                             TopFrame.imported, <<>>, TopFrame.before, m),
                      ncalls))

\* what a top-level function can throw: an exception of its own, or the one
\* the library threw at it
Throwable ==
    {Exc("Exception", "thrown by the module")}
    \cup {modRes[i].exc : i \in {j \in DOMAIN modRes :
             modRes[j].outcome = "throw" /\ Len(modRes[j].exc) <= MaxCauses}}

\* the top-level function throws e
TopLevelThrow ==
    /\ pc = "import"
    /\ frames # <<>>
    /\ \E e \in Throwable :
          SetMod(ScopeExit(ModNow, TopFrame.name), Callers,
                 Result(TopFrame.op, TopFrame.name, TopFrame.rets, "throw", 0,
                        initModuleCatch(e), TopFrame.called, "initModule", TRUE,
                        TopFrame.imported, e, TopFrame.before,
                        ScopeExit(ModNow, TopFrame.name)),
                 ncalls)

\* before it imports, the script makes a global a: a value, or a namespace
\* holding x
ScriptSetGlobal ==
    /\ pc = "import"
    /\ frames = <<>>
    /\ ncalls = 0
    /\ globals[GlobalNs].fields["a"] = 0
    /\ \/ SetMod([ModNow EXCEPT !.globals = SetField(@, GlobalNs, "a", NotNamespace)],
                 frames, modRes, ncalls)
       \/ SetMod([ModNow EXCEPT !.globals =
                     SetField(Append(@, Namespace("a", GlobalNs,
                                                  [NoFields EXCEPT !["x"] = NotNamespace])),
                              GlobalNs, "a", Len(globals) + 1)],
                 frames, modRes, ncalls)

NextImport ==
    \/ Load
    \/ Reload
    \/ TopLevelReturn
    \/ TopLevelThrow
    \/ ScriptSetGlobal

SpecImport == InitImport /\ [][NextImport]_vars

ProperPrefix(p, n) == Len(p) < Len(n) /\ SubSeq(n, 1, Len(p)) = p

LoadedNames == {n \in Names : loaded[n] # 0}

\* C13: no name in modules.loaded is a proper dotted prefix of another name in
\* it, whatever loads and reloads were made, nested imports included.
NoPrefixPair == \A p \in LoadedNames, n \in LoadedNames : ~ProperPrefix(p, n)

\* the finished calls to look at: the last one
Finished == {modRes[i] : i \in DOMAIN modRes}

WasLoaded(r) == InLoaded(r.before, r.name)

WasLoading(r) == r.name \in r.before.Loading

ThrewImport(r, msg) ==
    /\ r.outcome = "throw"
    /\ r.exc # <<>>
    /\ r.exc[1] = [kind |-> "ImportException", msg |-> msg]

\* no loader and no top-level function ran, and the library is as it was
NothingDone(r) == r.called = <<>> /\ ~r.ran /\ r.after = r.before

\* C14 as stated: a load or reload of a name whose load is in progress throws
\* the circular-import ImportException, runs no loader and leaves the mark of
\* the outer load in place.
CircularRejected ==
    \A r \in Finished :
       WasLoading(r) =>
          /\ ThrewImport(r, MsgCircular)
          /\ NothingDone(r)
          /\ r.name \in r.after.Loading

\* the call gets as far as commonLoad
ReachesCommonLoad(r) ==
    IF r.op = "load"
    THEN ~WasLoaded(r)
    ELSE WasLoaded(r) /\ r.name \notin AllStdlibNames /\ r.name \notin IncludedAddons

\* C14 amended: a load or reload of a name whose load is in progress runs no
\* loader and leaves the mark of the outer load in place; it throws the
\* circular-import ImportException when it gets as far as commonLoad (load of
\* a name not in modules.loaded, reload of a loaded module), while load of a
\* name that is in modules.loaded (a reload is in progress) returns the
\* namespace stored there and reload of a name not in modules.loaded throws
\* the not-yet-loaded ImportException.
CircularRejectedInCommonLoad ==
    \A r \in Finished :
       WasLoading(r) =>
          /\ NothingDone(r)
          /\ r.name \in r.after.Loading
          /\ ReachesCommonLoad(r) => ThrewImport(r, MsgCircular)
          /\ (r.op = "load" /\ WasLoaded(r)) =>
                (r.outcome = "return" /\ r.ns = r.before.loaded[r.name])
          /\ (r.op = "reload" /\ ~WasLoaded(r)) => ThrewImport(r, MsgNotLoaded)

\* inside the top-level function of a, a is imported again and the import is
\* refused as circular
CircularRejectedWitness ==
    /\ frames # <<>>
    /\ modRes # <<>>
    /\ modRes[1].name = TopFrame.name
    /\ modRes[1].stage = "circular"
    /\ modRes[1].before.Loading = Loading
    /\ TopFrame.name \in Loading

RECURSIVE Reachable(_, _, _)
Reachable(g, ids, n) ==
    IF n = 0 THEN ids
    ELSE Reachable(g, ids \cup ({g[i].fields[f] : i \in ids, f \in FieldNames}
                                 \cap (1 .. Len(g))), n - 1)

\* the global namespace hierarchy: every field of every namespace reachable from _G
Hierarchy(g) ==
    {<<i, f, g[i].fields[f]>> : i \in Reachable(g, {GlobalNs}, Len(g)), f \in FieldNames}

\* C15, for top-level functions that import nothing themselves: when the
\* top-level function throws during a load of a module that is not loaded,
\* modules.load throws and neither the global namespace hierarchy nor
\* modules.loaded has changed.
FailedLoadChangesNothing ==
    \A r \in Finished :
       (r.ran /\ r.thrown # <<>> /\ ~WasLoaded(r) /\ ~r.imported) =>
          /\ r.outcome = "throw"
          /\ r.after.loaded = r.before.loaded
          /\ Hierarchy(r.after.globals) = Hierarchy(r.before.globals)

\* C16: modules.load of a name that is in modules.loaded returns the namespace
\* stored there; no loader and no top-level function is called, and
\* modules.loaded, the prefixes, the loads in progress and the namespaces are
\* as before.
LoadedIsReturned ==
    \A r \in Finished :
       (r.op = "load" /\ WasLoaded(r)) =>
          /\ r.outcome = "return"
          /\ r.ns = r.before.loaded[r.name]
          /\ NothingDone(r)

\* module a was loaded by its top-level function and is loaded again
LoadedIsReturnedWitness ==
    /\ modRes # <<>>
    /\ modRes[1].op = "load"
    /\ modRes[1].name = NameA
    /\ WasLoaded(modRes[1])
    /\ modRes[1].ns = loaded[NameA]
    /\ globals[GlobalNs].fields["a"] = loaded[NameA]

\* C17: when the top-level function throws e, the load or reload throws an
\* ImportException whose cause is e.
TopLevelExceptionIsCause ==
    \A r \in Finished :
       (r.ran /\ r.thrown # <<>>) =>
          /\ r.outcome = "throw"
          /\ r.exc[1].kind = "ImportException"
          /\ Tail(r.exc) = r.thrown

\* a reload whose top-level function threw, and a load whose top-level
\* function threw on the failure of its own import
TopLevelExceptionWitness ==
    /\ modRes # <<>>
    /\ modRes[1].ran
    /\ modRes[1].outcome = "throw"
    /\ \/ modRes[1].op = "reload"
       \/ Len(modRes[1].thrown) = 2

InOrder(called) == called = [i \in 1 .. Len(called) |-> i]

ReloadRefused(r) ==
    \/ ~WasLoaded(r)
    \/ r.name \in AllStdlibNames
    \/ r.name \in IncludedAddons

\* C19: modules.reload throws ImportException, calling no loader and changing
\* nothing, when the name is not in modules.loaded or is a standard library or
\* an included addon; otherwise it goes through the load process although the
\* module is loaded.
ReloadChecks ==
    \A r \in Finished :
       r.op = "reload" =>
          IF ReloadRefused(r)
          THEN /\ r.outcome = "throw"
               /\ r.exc[1].kind = "ImportException"
               /\ r.stage = "reload"
               /\ NothingDone(r)
          ELSE /\ r.stage \in {"circular", "conflicts", "loaders", "initModule"}
               /\ r.stage \in {"loaders", "initModule"} => r.called # <<>>

\* the addon was loaded and its reload is refused, or a loaded module was
\* reloaded through its top-level function
ReloadChecksWitness ==
    /\ modRes # <<>>
    /\ modRes[1].op = "reload"
    /\ WasLoaded(modRes[1])
    /\ \/ modRes[1].name = NamePcre /\ modRes[1].outcome = "throw"
       \/ modRes[1].name = NameA /\ modRes[1].ran /\ modRes[1].outcome = "return"

-----------------------------------------------------------------------------
(* Streams: Stream, MemblockStream, BufferedInStream and NativeStream        *)
(* (module stream, croc/stdlib_stream.d)                                     *)

MaxData == 2
MaxM == 2

\* the longest memblock a write or a seek may make
MaxMb == 3

\* BufferedInStream: the buffer has at least 128 bytes
MinBufSize == 128

min(a, b) == IF a < b THEN a ELSE b

\* a stream: kind is its class; mb and pos are the bytes and the position of
\* the MemblockStream (for a BufferedInStream: of the MemblockStream it wraps,
\* for a NativeStream: of the native input stream); buf, bufPos, bound are the
\* buffer of a BufferedInStream; closed, readable, writable, dirty, seekable
\* are the fields of a NativeStream; short lists, for the coming reads and
\* writes of the native stream, how many bytes each transfers at most (a
\* short read or write), <<>> when it transfers everything asked for.
\* kind "Stream" is any other class derived from Stream.
StreamObj(kind, mb, pos, buf, bufPos, bound, closed, readable, writable, dirty,
          seekable, short) ==
    [kind |-> kind, mb |-> mb, pos |-> pos, buf |-> buf, bufPos |-> bufPos,
     bound |-> bound, closed |-> closed, readable |-> readable,
     writable |-> writable, dirty |-> dirty, seekable |-> seekable, short |-> short]

\* the number of bytes one read or write of the native stream transfers when
\* asked for size bytes with avail at hand
Transfer(s, size, avail) ==
    min(IF s.short = <<>> THEN size ELSE min(Head(s.short), size), avail)

Rest(short) == IF short = <<>> THEN <<>> ELSE Tail(short)

\* what read did: the stream and the memblock afterwards, and either the
\* returned count or the thrown exception
ReadReturn(s, m, n) == [s |-> s, m |-> m, outcome |-> "return", n |-> n, exc |-> ""]

ReadThrow(s, m, exc) == [s |-> s, m |-> m, outcome |-> "throw", n |-> 0, exc |-> exc]

\* the exception checkRWParams throws, "" when it returns
checkRWParams(m, offset, size) ==
    IF offset < 0 \/ offset > Len(m)
    THEN "BoundsException"
    ELSE IF size < 0 \/ size > Len(m) - offset
    THEN "BoundsException"
    ELSE ""

\* m.copy(offset, src, pos, n)
copy(m, offset, src, pos, n) ==
    [i \in 1 .. Len(m) |->
        IF i > offset /\ i <= offset + n THEN src[pos + (i - offset)] ELSE m[i]]

\* MemblockStream.read
MemblockStreamRead(s, m, offset, size) ==
    IF s.pos >= Len(s.mb)
    THEN ReadReturn(s, m, 0)
    ELSE IF checkRWParams(m, offset, size) # ""
    THEN ReadThrow(s, m, checkRWParams(m, offset, size))
    ELSE IF size = 0
    THEN ReadReturn(s, m, 0)
    ELSE ReadReturn([s EXCEPT !.pos = @ + min(size, Len(s.mb) - s.pos)],
                    copy(m, offset, s.mb, s.pos, min(size, Len(s.mb) - s.pos)),
                    min(size, Len(s.mb) - s.pos))

\* #m = n: the memblock keeps its bytes, new ones are 0
resize(m, n) == [i \in 1 .. n |-> IF i <= Len(m) THEN m[i] ELSE 0]

\* MemblockStream.write
MemblockStreamWrite(s, m, offset, size) ==
    IF checkRWParams(m, offset, size) # ""
    THEN ReadThrow(s, m, checkRWParams(m, offset, size))
    ELSE IF size = 0
    THEN ReadReturn(s, m, 0)
    ELSE Then(IF size > Len(s.mb) - s.pos THEN resize(s.mb, s.pos + size) ELSE s.mb,
              LAMBDA mb :
                 ReadReturn([s EXCEPT !.mb = copy(mb, s.pos, m, offset, size),
                                      !.pos = @ + size],
                            m, size))

\* the seek types
SeekTypes == {"b", "c", "e"}

\* a seek that leaves the memblock as long as it is
MemblockStreamSeekNoResize(s, offset, where) ==
    IF where \notin SeekTypes
    THEN ReadThrow(s, <<>>, "ValueException")
    ELSE Then(offset + (IF where = "c" THEN s.pos ELSE IF where = "e" THEN Len(s.mb) ELSE 0),
              LAMBDA off :
                 IF off < 0
                 THEN ReadThrow(s, <<>>, "IOException")
                 ELSE ReadReturn([s EXCEPT !.pos = off], <<>>, off))

\* MemblockStream.seek
MemblockStreamSeek(s, offset, where) ==
    IF where \notin SeekTypes
    THEN ReadThrow(s, <<>>, "ValueException")
    ELSE Then(offset + (IF where = "c" THEN s.pos ELSE IF where = "e" THEN Len(s.mb) ELSE 0),
              LAMBDA off :
                 IF off < 0
                 THEN ReadThrow(s, <<>>, "IOException")
                 ELSE ReadReturn([s EXCEPT !.mb = IF off > Len(@) THEN resize(@, off) ELSE @,
                                           !.pos = off],
                                 <<>>, off))

\* a _readMore that goes on in the buffer where it was
readMoreKeepBufPos(s) ==
    IF s.pos >= Len(s.mb)
    THEN [s EXCEPT !.bound = 0]
    ELSE Then(Transfer(s, MinBufSize, Len(s.mb) - s.pos), LAMBDA n :
            [s EXCEPT !.bound = n,
                      !.buf = SubSeq(s.mb, s.pos + 1, s.pos + n),
                      !.pos = s.pos + n,
                      !.short = Rest(@)])

\* BufferedInStream._readMore: _bound = _stream.read(_buf); the wrapped stream
\* is a MemblockStream (short = <<>>) or a stream that reads short
readMore(s) ==
    IF s.pos >= Len(s.mb)
    THEN [s EXCEPT !.bufPos = 0, !.bound = 0]
    ELSE Then(Transfer(s, MinBufSize, Len(s.mb) - s.pos), LAMBDA n :
            [s EXCEPT !.bufPos = 0,
                      !.bound = n,
                      !.buf = SubSeq(s.mb, s.pos + 1, s.pos + n),
                      !.pos = s.pos + n,
                      !.short = Rest(@)])

\* the while loop of BufferedInStream.read
RECURSIVE BufferedLoop(_, _, _, _, _)
BufferedLoop(s, m, offset, remaining, size) ==
    IF remaining <= 0
    THEN ReadReturn(s, m, size - remaining)
    ELSE IF s.bound - s.bufPos = 0 /\ readMore(s).bound = 0
    THEN ReadReturn(readMore(s), m, size - remaining)
    ELSE Then(IF s.bound - s.bufPos = 0 THEN readMore(s) ELSE s, LAMBDA s1 :
            Then(min(s1.bound - s1.bufPos, remaining), LAMBDA num :
               BufferedLoop([s1 EXCEPT !.bufPos = @ + num],
                            copy(m, offset, s1.buf, s1.bufPos, num),
                            offset + num, remaining - num, size)))

\* BufferedInStream.read
BufferedInStreamRead(s, m, offset, size) ==
    IF checkRWParams(m, offset, size) # ""
    THEN ReadThrow(s, m, checkRWParams(m, offset, size))
    ELSE BufferedLoop(s, m, offset, size, size)

\* _streamRead: the loop ends at the first short read of the native stream
\* and at end-of-file
streamRead(s, m, offset, size) ==
    IF size = 0
    THEN ReadReturn(s, m, 0)
    ELSE Then(Transfer(s, size, Len(s.mb) - s.pos), LAMBDA n :
            ReadReturn([s EXCEPT !.pos = @ + n, !.short = Rest(@)],
                       copy(m, offset, s.mb, s.pos, n), n))

\* NativeStream._checkDirty
checkDirty(s) == IF s.dirty THEN [s EXCEPT !.dirty = FALSE] ELSE s

\* NativeStream.read
NativeStreamRead(s, m, offset, size) ==
    IF s.closed
    THEN ReadThrow(s, m, "TypeError")
    ELSE IF ~s.readable
    THEN ReadThrow(s, m, "TypeException")
    ELSE Then(IF s.writable THEN checkDirty(s) ELSE s, LAMBDA s1 :
            IF checkRWParams(m, offset, size) # ""
            THEN ReadThrow(s1, m, checkRWParams(m, offset, size))
            ELSE streamRead(s1, m, offset, size))

\* read of a class derived from Stream, as Stream.read describes it: nothing
\* for size = 0, else a count in [1, size], or 0 at end-of-file
SubclassRead(s, m, offset, size) ==
    IF ~s.readable
    THEN ReadThrow(s, m, "TypeError")
    ELSE IF checkRWParams(m, offset, size) # ""
    THEN ReadThrow(s, m, checkRWParams(m, offset, size))
    ELSE IF size = 0
    THEN ReadReturn(s, m, 0)
    ELSE Then(Transfer(s, size, Len(s.mb) - s.pos), LAMBDA n :
            ReadReturn([s EXCEPT !.pos = @ + n, !.short = Rest(@)],
                       copy(m, offset, s.mb, s.pos, n), n))

\* s.read(m, offset, size)
read(s, m, offset, size) ==
    IF s.kind = "MemblockStream" THEN MemblockStreamRead(s, m, offset, size)
    ELSE IF s.kind = "BufferedInStream" THEN BufferedInStreamRead(s, m, offset, size)
    ELSE IF s.kind = "NativeStream" THEN NativeStreamRead(s, m, offset, size)
    ELSE SubclassRead(s, m, offset, size)

\* n bytes of m, from offset on, put into the stream at its position
Put(s, m, offset, n) ==
    [s EXCEPT !.mb = copy(IF n > Len(@) - s.pos THEN resize(@, s.pos + n) ELSE @,
                          s.pos, m, offset, n),
              !.pos = @ + n]

\* _streamWrite: the loop goes on until the native stream took every byte
streamWrite(s, m, offset, size) == ReadReturn(Put(s, m, offset, size), m, size)

\* NativeStream.write
NativeStreamWrite(s, m, offset, size) ==
    IF s.closed
    THEN ReadThrow(s, m, "TypeError")
    ELSE IF ~s.writable
    THEN ReadThrow(s, m, "TypeException")
    ELSE IF checkRWParams(m, offset, size) # ""
    THEN ReadThrow(s, m, checkRWParams(m, offset, size))
    ELSE streamWrite(s, m, offset, size)

\* write of a class derived from Stream, as Stream.write describes it:
\* nothing for size = 0, else a count in [1, size]
SubclassWrite(s, m, offset, size) ==
    IF ~s.writable
    THEN ReadThrow(s, m, "TypeError")
    ELSE IF checkRWParams(m, offset, size) # ""
    THEN ReadThrow(s, m, checkRWParams(m, offset, size))
    ELSE IF size = 0
    THEN ReadReturn(s, m, 0)
    ELSE Then(Transfer(s, size, size), LAMBDA n :
            ReadReturn([Put(s, m, offset, n) EXCEPT !.short = Rest(@)], m, n))

\* s.write(m, offset, size); a StreamWrapper hands it to the stream it wraps
write(s, m, offset, size) ==
    IF s.kind \in {"MemblockStream", "BufferedInStream"}
    THEN MemblockStreamWrite(s, m, offset, size)
    ELSE IF s.kind = "NativeStream" THEN NativeStreamWrite(s, m, offset, size)
    ELSE SubclassWrite(s, m, offset, size)

\* BufferedInStream.seek
BufferedInStreamSeek(s, offset, where) ==
    MemblockStreamSeek([s EXCEPT !.bufPos = 0, !.bound = 0],
                       IF where = "c" THEN offset - (s.bound - s.bufPos) ELSE offset,
                       where)

\* NativeStream.seek; _streamSeek moves the position of the native stream
NativeStreamSeek(s, offset, where) ==
    IF s.closed
    THEN ReadThrow(s, <<>>, "TypeError")
    ELSE IF ~s.seekable
    THEN ReadThrow(s, <<>>, "TypeException")
    ELSE Then(IF s.writable THEN checkDirty(s) ELSE s, LAMBDA s1 :
            IF where \notin SeekTypes
            THEN ReadThrow(s1, <<>>, "ValueException")
            ELSE Then(offset + (IF where = "c" THEN s1.pos
                                ELSE IF where = "e" THEN Len(s1.mb) ELSE 0),
                      LAMBDA off :
                         IF off < 0
                         THEN ReadThrow(s1, <<>>, "IOException")
                         ELSE ReadReturn([s1 EXCEPT !.pos = off], <<>>, off)))

\* s.seek(offset, where)
seek(s, offset, where) ==
    IF s.kind = "MemblockStream" THEN MemblockStreamSeek(s, offset, where)
    ELSE IF s.kind = "BufferedInStream" THEN BufferedInStreamSeek(s, offset, where)
    ELSE IF s.kind = "NativeStream" THEN NativeStreamSeek(s, offset, where)
    ELSE ReadThrow(s, <<>>, "NotImplementedException")

\* s.writable(), s.readable(), s.seekable()
writable(s) ==
    IF s.kind = "MemblockStream" THEN TRUE
    ELSE IF s.kind = "BufferedInStream" THEN FALSE ELSE s.writable

readable(s) == IF s.kind \in {"MemblockStream", "BufferedInStream"} THEN TRUE ELSE s.readable

seekable(s) == IF s.kind \in {"MemblockStream", "BufferedInStream"} THEN TRUE ELSE s.seekable

\* the exception of s.flush(), "" when it returns: NativeStream.flush wants
\* an open stream
flush(s) == IF s.kind = "NativeStream" /\ s.closed THEN "TypeError" ELSE ""

\* a readExact that calls read once
readExactOnce(s, m, offset, size) ==
    IF checkRWParams(m, offset, size) # ""
    THEN ReadThrow(s, m, checkRWParams(m, offset, size))
    ELSE IF size = 0
    THEN ReadReturn(s, m, 0)
    ELSE Then(read(s, m, offset, size), LAMBDA r :
            IF r.outcome = "throw" THEN r
            ELSE IF r.n = 0 THEN ReadThrow(r.s, r.m, "EOFException")
            ELSE ReadReturn(r.s, r.m, 0))

\* the while loop of Stream.readExact
RECURSIVE readExactLoop(_, _, _, _)
readExactLoop(s, m, offset, remaining) ==
    IF remaining <= 0
    THEN ReadReturn(s, m, 0)
    ELSE Then(read(s, m, offset, remaining), LAMBDA r :
            IF r.outcome = "throw" THEN r
            ELSE IF r.n = 0 THEN ReadThrow(r.s, r.m, "EOFException")
            ELSE readExactLoop(r.s, r.m, offset + r.n, remaining - r.n))

\* Stream.readExact; it returns nothing (n = 0)
readExact(s, m, offset, size) ==
    IF checkRWParams(m, offset, size) # ""
    THEN ReadThrow(s, m, checkRWParams(m, offset, size))
    ELSE readExactLoop(s, m, offset, size)

\* the while loop of Stream.writeExact
RECURSIVE writeExactLoop(_, _, _, _)
writeExactLoop(s, m, offset, remaining) ==
    IF remaining <= 0
    THEN ReadReturn(s, m, 0)
    ELSE Then(write(s, m, offset, remaining), LAMBDA r :
            IF r.outcome = "throw" THEN r
            ELSE writeExactLoop(r.s, r.m, offset + r.n, remaining - r.n))

\* Stream.writeExact; it returns nothing (n = 0)
writeExact(s, m, offset, size) ==
    IF checkRWParams(m, offset, size) # ""
    THEN ReadThrow(s, m, checkRWParams(m, offset, size))
    ELSE writeExactLoop(s, m, offset, size)

\* Stream._scratch
ScratchSize == 4096

\* Stream.skip. Behind the seekable case: after the first readExact of the
\* loop, bytesRead is null (readExact returns nothing) and numBytes is no
\* variable, so the pass ends in the exception err of the interpreter.
skip(s, dist, err) ==
    IF ~readable(s)
    THEN ReadThrow(s, <<>>, "TypeError")
    ELSE IF dist < 0
    THEN ReadThrow(s, <<>>, "RangeException")
    ELSE IF dist = 0
    THEN ReadReturn(s, <<>>, 0)
    ELSE IF seekable(s)
    THEN Then(seek(s, dist, "c"), LAMBDA r :
            IF r.outcome = "throw" THEN r ELSE ReadReturn(r.s, <<>>, 0))
    ELSE IF flush(s) # ""
    THEN ReadThrow(s, <<>>, flush(s))
    ELSE Then(readExact(s, [i \in 1 .. min(dist, ScratchSize) |-> 0], 0,
                        min(dist, ScratchSize)),
              LAMBDA r :
                 IF r.outcome = "throw"
                 THEN ReadThrow(r.s, <<>>, r.exc)
                 ELSE ReadThrow(r.s, <<>>, err))

-----------------------------------------------------------------------------
(* SpecStream: a script reads from a stream into a memblock *)

StreamData == {SubSeq(<<7, 8, 9>>, 1, n) : n \in 0 .. MaxData}

Memblocks == {[i \in 1 .. n |-> 0] : n \in 0 .. MaxM}

StreamSamples ==
    {StreamObj("MemblockStream", d, 0, <<>>, 0, 0, FALSE, TRUE, TRUE, FALSE, TRUE, <<>>) :
        d \in StreamData}
    \cup {StreamObj("BufferedInStream", d, 0, <<>>, 0, 0, FALSE, TRUE, FALSE, FALSE, TRUE, <<>>) :
             d \in StreamData}
    \cup {StreamObj("NativeStream", d, 0, <<>>, 0, 0, FALSE, r, w, FALSE, FALSE, <<>>) :
             d \in StreamData, r \in BOOLEAN, w \in BOOLEAN}

InitStream ==
    /\ pc = "stream"
    /\ wbuild = NativeBuild /\ rbuild = NativeBuild
    /\ out = <<>> /\ dPos = 0
    /\ IntIdle /\ ValIdle /\ GraphIdle
    /\ ThrIdle /\ ModIdle
    /\ strm \in StreamSamples
    /\ dest \in Memblocks
    /\ rdRes = <<>>
    /\ srcStrm = <<>> /\ got = <<>>

ReadResult(offset, size, o) ==
    <<[offset |-> offset, size |-> size, outcome |-> o.outcome, n |-> o.n, exc |-> o.exc,
       before |-> strm, mBefore |-> dest, after |-> o.s, mAfter |-> o.m]>>

\* s.read(m, offset, size) with any offset and size, valid or not
StreamRead ==
    /\ pc = "stream"
    /\ \E offset \in -1 .. MaxM + 1, size \in -1 .. MaxM + 1 :
          /\ strm' = read(strm, dest, offset, size).s
          /\ dest' = read(strm, dest, offset, size).m
          /\ rdRes' = ReadResult(offset, size, read(strm, dest, offset, size))
    /\ UNCHANGED <<srcStrm, got>>
    /\ UNCHANGED coreVars
    /\ UNCHANGED thrVars
    /\ UNCHANGED modVars

\* NativeStream.close
StreamClose ==
    /\ pc = "stream"
    /\ strm.kind = "NativeStream"
    /\ ~strm.closed
    /\ strm' = [strm EXCEPT !.closed = TRUE]
    /\ UNCHANGED <<dest, rdRes, srcStrm, got>>
    /\ UNCHANGED coreVars
    /\ UNCHANGED thrVars
    /\ UNCHANGED modVars

NextStream == StreamRead \/ StreamClose

SpecStream == InitStream /\ [][NextStream]_vars

BadParams(r) ==
    \/ r.offset < 0 \/ r.offset > Len(r.mBefore)
    \/ r.size < 0 \/ r.size > Len(r.mBefore) - r.offset

\* the position at which the stream reads next
StreamPosition(s) == s.pos - (s.bound - s.bufPos)

\* C20: read on an open, readable MemblockStream, BufferedInStream or
\* NativeStream throws BoundsException whenever offset is outside [0, #m] or
\* size is outside [0, #m - offset], at end-of-file too, and then no data is
\* read and the stream position is unchanged.
BadParamsRejected ==
    \A i \in DOMAIN rdRes :
       (BadParams(rdRes[i]) /\ ~rdRes[i].before.closed /\ rdRes[i].before.readable) =>
          /\ rdRes[i].outcome = "throw"
          /\ rdRes[i].exc = "BoundsException"
          /\ rdRes[i].mAfter = rdRes[i].mBefore
          /\ StreamPosition(rdRes[i].after) = StreamPosition(rdRes[i].before)

-----------------------------------------------------------------------------
(* SpecMemblockStream: a script reads, writes and seeks a MemblockStream *)

\* the memblock a script writes from, and the one it reads into
WriteSource == [i \in 1 .. MaxM |-> 1]

ReadTarget == [i \in 1 .. MaxM |-> 0]

InitMemblockStream ==
    /\ pc = "mbstream"
    /\ wbuild = NativeBuild /\ rbuild = NativeBuild
    /\ out = <<>> /\ dPos = 0
    /\ IntIdle /\ ValIdle /\ GraphIdle
    /\ ThrIdle /\ ModIdle
    /\ strm \in {StreamObj("MemblockStream", d, 0, <<>>, 0, 0, FALSE, TRUE, TRUE, FALSE, TRUE, <<>>) :
                    d \in StreamData}
    /\ dest = WriteSource
    /\ rdRes = <<>>
    /\ srcStrm = <<>> /\ got = <<>>

OpResult(op, offset, size, where, o) ==
    <<[op |-> op, offset |-> offset, size |-> size, where |-> where,
       outcome |-> o.outcome, n |-> o.n, exc |-> o.exc,
       before |-> strm, mBefore |-> dest, after |-> o.s]>>

\* s.read(m, offset, size)
MbsRead ==
    /\ pc = "mbstream"
    /\ \E offset \in 0 .. MaxM, size \in 0 .. MaxM :
          /\ strm' = MemblockStreamRead(strm, ReadTarget, offset, size).s
          /\ rdRes' = OpResult("read", offset, size, "",
                               MemblockStreamRead(strm, ReadTarget, offset, size))
    /\ UNCHANGED <<dest, srcStrm, got>>
    /\ UNCHANGED coreVars
    /\ UNCHANGED thrVars
    /\ UNCHANGED modVars

\* s.write(m, offset, size)
MbsWrite ==
    /\ pc = "mbstream"
    /\ \E offset \in 0 .. MaxM, size \in 0 .. MaxM :
          /\ Len(MemblockStreamWrite(strm, dest, offset, size).s.mb) <= MaxMb
          /\ strm' = MemblockStreamWrite(strm, dest, offset, size).s
          /\ rdRes' = OpResult("write", offset, size, "", MemblockStreamWrite(strm, dest, offset, size))
    /\ UNCHANGED <<dest, srcStrm, got>>
    /\ UNCHANGED coreVars
    /\ UNCHANGED thrVars
    /\ UNCHANGED modVars

\* s.seek(offset, where), with a where that is no seek type too
MbsSeek ==
    /\ pc = "mbstream"
    /\ \E offset \in (0 - MaxMb) .. MaxMb, where \in SeekTypes \cup {"x"} :
          /\ Len(MemblockStreamSeek(strm, offset, where).s.mb) <= MaxMb
          /\ strm' = MemblockStreamSeek(strm, offset, where).s
          /\ rdRes' = OpResult("seek", offset, 0, where, MemblockStreamSeek(strm, offset, where))
    /\ UNCHANGED <<dest, srcStrm, got>>
    /\ UNCHANGED coreVars
    /\ UNCHANGED thrVars
    /\ UNCHANGED modVars

NextMemblockStream == MbsRead \/ MbsWrite \/ MbsSeek

SpecMemblockStream == InitMemblockStream /\ [][NextMemblockStream]_vars

\* the position a seek asks for
SeekTarget(r) ==
    r.offset + (IF r.where = "c" THEN r.before.pos
                ELSE IF r.where = "e" THEN Len(r.before.mb) ELSE 0)

SeekDone(r) ==
    IF r.where \notin SeekTypes
    THEN r.outcome = "throw" /\ r.exc = "ValueException" /\ r.after = r.before
    ELSE IF SeekTarget(r) < 0
    THEN r.outcome = "throw" /\ r.exc = "IOException" /\ r.after = r.before
    ELSE /\ r.outcome = "return"
         /\ r.n = SeekTarget(r)
         /\ r.after.pos = SeekTarget(r)
         /\ r.after.mb = IF SeekTarget(r) > Len(r.before.mb)
                         THEN resize(r.before.mb, SeekTarget(r))
                         ELSE r.before.mb

\* C24: MemblockStream.seek sets and returns offset for 'b', _pos + offset
\* for 'c' and #_mb + offset for 'e'; a negative position throws IOException
\* and an invalid where ValueException, both leaving position and memblock
\* as they were; a position past the end resizes the memblock to it; and
\* 0 <= _pos <= #_mb holds after every read, write and seek.
SeekContract ==
    (pc = "mbstream") =>
       /\ 0 <= strm.pos /\ strm.pos <= Len(strm.mb)
       /\ \A i \in DOMAIN rdRes : rdRes[i].op = "seek" => SeekDone(rdRes[i])

\* a seek past the end has grown the memblock, and a later write moved on
SeekContractWitness ==
    /\ pc = "mbstream"
    /\ rdRes # <<>>
    /\ rdRes[1].op = "seek"
    /\ rdRes[1].outcome = "return"
    /\ rdRes[1].after.pos > Len(rdRes[1].before.mb)
    /\ Len(rdRes[1].before.mb) > 0

-----------------------------------------------------------------------------
(* SpecBuffered: a script reads a stream through a BufferedInStream *)

\* short reads: at most MaxShort of them, of 1 .. MaxChunk bytes each
MaxChunk == 2
MaxShort == 2

RECURSIVE Schedules(_)
Schedules(n) ==
    IF n = 0 THEN {<<>>}
    ELSE Schedules(n - 1)
         \cup {<<c>> \o t : c \in 1 .. MaxChunk, t \in {u \in Schedules(n - 1) : Len(u) = n - 1}}

\* a stream longer than the buffer
LongData == [i \in 1 .. MinBufSize + 1 |-> i % 5]

InitBuffered ==
    /\ pc = "buffered"
    /\ wbuild = NativeBuild /\ rbuild = NativeBuild
    /\ out = <<>> /\ dPos = 0
    /\ IntIdle /\ ValIdle /\ GraphIdle
    /\ ThrIdle /\ ModIdle
    /\ strm \in {StreamObj("BufferedInStream", d, 0, <<>>, 0, 0, FALSE, TRUE, FALSE, FALSE,
                            TRUE, sh) :
                    d \in StreamData \cup {LongData}, sh \in Schedules(MaxShort)}
    /\ dest = ReadTarget
    /\ rdRes = <<>>
    /\ srcStrm = <<>>
    /\ got = <<>>

\* s.read(m, offset, size) into a new memblock m, with any offset and size
BufferedRead ==
    /\ pc = "buffered"
    /\ \E offset \in 0 .. MaxM, size \in 0 .. MaxM :
          /\ strm' = BufferedInStreamRead(strm, dest, offset, size).s
          /\ rdRes' = OpResult("read", offset, size, "",
                               BufferedInStreamRead(strm, dest, offset, size))
          /\ got' = got \o SubSeq(BufferedInStreamRead(strm, dest, offset, size).m,
                                  offset + 1,
                                  offset + BufferedInStreamRead(strm, dest, offset, size).n)
    /\ UNCHANGED <<dest, srcStrm>>
    /\ UNCHANGED coreVars
    /\ UNCHANGED thrVars
    /\ UNCHANGED modVars

NextBuffered == BufferedRead

SpecBuffered == InitBuffered /\ [][NextBuffered]_vars

\* the wrapped stream is at end-of-file and has said so
ReportedEof(s) == s.pos >= Len(s.mb) /\ s.bound = 0 /\ s.bufPos = 0

ReadDone(r) ==
    IF checkRWParams(r.mBefore, r.offset, r.size) # ""
    THEN r.outcome = "throw" /\ r.after = r.before
    ELSE /\ r.outcome = "return"
         /\ 0 <= r.n /\ r.n <= r.size
         /\ r.n < r.size => ReportedEof(r.after)

\* C25: whatever the sizes of the reads and the short reads of the wrapped
\* stream, the bytes BufferedInStream.read returned so far are the first
\* bytes of the wrapped stream, in order, none skipped or repeated; every
\* read returns a count in [0, size], below size only when the wrapped
\* stream reported end-of-file; and 0 <= _bufPos <= _bound <= #_buf.
BufferedTransparent ==
    (pc = "buffered") =>
       /\ Len(got) <= Len(strm.mb)
       /\ got = SubSeq(strm.mb, 1, Len(got))
       /\ Len(got) = StreamPosition(strm)
       /\ 0 <= strm.bufPos /\ strm.bufPos <= strm.bound /\ strm.bound <= MinBufSize
       /\ \A i \in DOMAIN rdRes : ReadDone(rdRes[i])

\* the reads went past the first buffer-full of a long stream, and a read
\* was served from two fillings of the buffer
BufferedTransparentWitness ==
    /\ pc = "buffered"
    /\ Len(got) > MinBufSize
    /\ rdRes # <<>>
    /\ rdRes[1].n = MaxM
    /\ rdRes[1].after.bufPos = 1

\* Stream._scratch, as far as a stream of at most MaxMb bytes can fill it
Scratch == [i \in 1 .. min(ScratchSize, MaxMb + 1) |-> 0]

\* what copy did: both streams afterwards, and the exception if it threw
CopyReturn(d, s) == [dst |-> d, src |-> s, outcome |-> "return", exc |-> ""]

CopyThrow(d, s, exc) == [dst |-> d, src |-> s, outcome |-> "throw", exc |-> exc]

\* Stream.copy, size == -1: the loop that ends when s.read returns 0
RECURSIVE copyAll(_, _, _)
copyAll(d, s, buf) ==
    Then(read(s, buf, 0, Len(buf)), LAMBDA r :
       IF r.outcome = "throw" THEN CopyThrow(d, r.s, r.exc)
       ELSE IF r.n = 0 THEN CopyReturn(d, r.s)
       ELSE Then(writeExact(d, r.m, 0, r.n), LAMBDA w :
               IF w.outcome = "throw" THEN CopyThrow(w.s, r.s, w.exc)
               ELSE copyAll(w.s, r.s, r.m)))

\* Stream.copy, size >= 0: the loop over the remaining bytes
RECURSIVE copySome(_, _, _, _)
copySome(d, s, buf, remaining) ==
    IF remaining <= 0
    THEN CopyReturn(d, s)
    ELSE Then(read(s, buf, 0, min(remaining, Len(buf))), LAMBDA r :
            IF r.outcome = "throw" THEN CopyThrow(d, r.s, r.exc)
            ELSE IF r.n = 0 THEN CopyThrow(d, r.s, "EOFException")
            ELSE Then(writeExact(d, r.m, 0, r.n), LAMBDA w :
                    IF w.outcome = "throw" THEN CopyThrow(w.s, r.s, w.exc)
                    ELSE copySome(w.s, r.s, r.m, remaining - r.n)))

\* a copy that takes every size
StreamCopyAnySize(d, s, size) ==
    IF ~writable(d) \/ ~readable(s)
    THEN CopyThrow(d, s, "TypeError")
    ELSE IF size = -1
    THEN copyAll(d, s, Scratch)
    ELSE copySome(d, s, Scratch, size)

\* Stream.copy: d.copy(s, size)
StreamCopy(d, s, size) ==
    IF ~writable(d) \/ ~readable(s)
    THEN CopyThrow(d, s, "TypeError")
    ELSE IF size < -1
    THEN CopyThrow(d, s, "RangeException")
    ELSE IF size = -1
    THEN copyAll(d, s, Scratch)
    ELSE copySome(d, s, Scratch, size)

-----------------------------------------------------------------------------
(* SpecExact: a script calls readExact, writeExact and skip on a stream *)

\* the exceptions of the interpreter that end the first pass of skip's loop:
\* the comparison of null with 0, the lookup of the global numBytes
LoopErrors == {"TypeException", "NameException"}

ExactSamples ==
    {StreamObj("MemblockStream", d, 0, <<>>, 0, 0, FALSE, TRUE, TRUE, FALSE, TRUE, <<>>) :
        d \in StreamData}
    \cup {StreamObj("BufferedInStream", d, 0, <<>>, 0, 0, FALSE, TRUE, FALSE, FALSE, TRUE, <<>>) :
             d \in StreamData}
    \cup {StreamObj("NativeStream", d, 0, <<>>, 0, 0, FALSE, TRUE, w, FALSE, FALSE, sh) :
             d \in StreamData, w \in BOOLEAN, sh \in Schedules(MaxShort)}
    \cup {StreamObj("Stream", d, 0, <<>>, 0, 0, FALSE, TRUE, TRUE, FALSE, FALSE, sh) :
             d \in StreamData, sh \in Schedules(MaxShort)}

InitExact ==
    /\ pc = "exact"
    /\ wbuild = NativeBuild /\ rbuild = NativeBuild
    /\ out = <<>> /\ dPos = 0
    /\ IntIdle /\ ValIdle /\ GraphIdle
    /\ ThrIdle /\ ModIdle
    /\ strm \in ExactSamples
    /\ dest = WriteSource
    /\ rdRes = <<>>
    /\ srcStrm = <<>>
    /\ got = <<>>

CallResult(op, offset, size, m, o) ==
    <<[op |-> op, offset |-> offset, size |-> size,
       outcome |-> o.outcome, n |-> o.n, exc |-> o.exc,
       before |-> strm, mBefore |-> m, after |-> o.s, mAfter |-> o.m]>>

\* s.readExact(m, offset, size) into a new memblock m
CallReadExact ==
    /\ pc = "exact"
    /\ \E offset \in 0 .. MaxM, size \in 0 .. MaxM :
          /\ strm' = readExact(strm, ReadTarget, offset, size).s
          /\ rdRes' = CallResult("readExact", offset, size, ReadTarget,
                                 readExact(strm, ReadTarget, offset, size))
    /\ UNCHANGED <<dest, srcStrm, got>>
    /\ UNCHANGED coreVars
    /\ UNCHANGED thrVars
    /\ UNCHANGED modVars

\* s.writeExact(m, offset, size); a script does not write through a
\* BufferedInStream, which is for reading only
CallWriteExact ==
    /\ pc = "exact"
    /\ strm.kind # "BufferedInStream"
    /\ \E offset \in 0 .. MaxM, size \in 0 .. MaxM :
          /\ Len(writeExact(strm, dest, offset, size).s.mb) <= MaxMb
          /\ strm' = writeExact(strm, dest, offset, size).s
          /\ rdRes' = CallResult("writeExact", offset, size, dest,
                                 writeExact(strm, dest, offset, size))
    /\ UNCHANGED <<dest, srcStrm, got>>
    /\ UNCHANGED coreVars
    /\ UNCHANGED thrVars
    /\ UNCHANGED modVars

\* s.skip(dist)
CallSkip ==
    /\ pc = "exact"
    /\ \E dist \in -1 .. MaxData + 1, err \in LoopErrors :
          /\ Len(skip(strm, dist, err).s.mb) <= MaxMb
          /\ strm' = skip(strm, dist, err).s
          /\ rdRes' = CallResult("skip", 0, dist, <<>>, skip(strm, dist, err))
    /\ UNCHANGED <<dest, srcStrm, got>>
    /\ UNCHANGED coreVars
    /\ UNCHANGED thrVars
    /\ UNCHANGED modVars

NextExact == CallReadExact \/ CallWriteExact \/ CallSkip

SpecExact == InitExact /\ [][NextExact]_vars

\* the bytes between the position of the stream and its end
Avail(s) == Len(s.mb) - StreamPosition(s)

ReadExactDone(r) ==
    (checkRWParams(r.mBefore, r.offset, r.size) = "" /\ readable(r.before)) =>
       IF Avail(r.before) >= r.size
       THEN /\ r.outcome = "return"
            /\ r.mAfter = copy(r.mBefore, r.offset, r.before.mb, StreamPosition(r.before), r.size)
            /\ StreamPosition(r.after) = StreamPosition(r.before) + r.size
       ELSE r.outcome = "throw" /\ r.exc = "EOFException"

WriteExactDone(r) ==
    (checkRWParams(r.mBefore, r.offset, r.size) = "" /\ writable(r.before)) =>
       /\ r.outcome = "return"
       /\ r.after.pos = r.before.pos + r.size
       /\ Len(r.after.mb) = IF r.before.pos + r.size > Len(r.before.mb)
                            THEN r.before.pos + r.size ELSE Len(r.before.mb)
       /\ \A i \in 1 .. Len(r.after.mb) :
             r.after.mb[i] = IF i > r.before.pos /\ i <= r.before.pos + r.size
                             THEN r.mBefore[r.offset + (i - r.before.pos)]
                             ELSE r.before.mb[i]

\* C22: readExact fills m[offset .. offset + size) with the next size bytes
\* of the stream and consumes exactly these, or throws EOFException when
\* the stream ends before; writeExact writes the size bytes of m, in order,
\* at the position of the stream; both also when reads and writes are short.
ExactContract ==
    \A i \in DOMAIN rdRes :
       /\ (pc = "exact" /\ rdRes[i].op = "readExact") => ReadExactDone(rdRes[i])
       /\ (pc = "exact" /\ rdRes[i].op = "writeExact") => WriteExactDone(rdRes[i])

\* a readExact got its bytes from a stream whose first read was short
ExactContractWitness ==
    /\ pc = "exact"
    /\ rdRes # <<>>
    /\ rdRes[1].op = "readExact"
    /\ rdRes[1].outcome = "return"
    /\ rdRes[1].size = MaxM
    /\ rdRes[1].before.short # <<>>
    /\ Head(rdRes[1].before.short) < MaxM

SkipDone(r) ==
    readable(r.before) =>
       IF r.size < 0
       THEN r.outcome = "throw" /\ r.exc = "RangeException" /\ r.after = r.before
       ELSE IF r.size = 0
       THEN r.outcome = "return" /\ r.after = r.before
       ELSE IF Avail(r.before) >= r.size
       THEN /\ r.outcome = "return"
            /\ StreamPosition(r.after) = StreamPosition(r.before) + r.size
       ELSE r.outcome = "throw" /\ r.exc = "EOFException"

\* C21: skip(dist) on a readable stream moves the read position on by dist
\* bytes, seekable or not; it returns at once for dist = 0, throws
\* RangeException for dist < 0 and EOFException when the stream ends first.
SkipContract ==
    \A i \in DOMAIN rdRes :
       (pc = "exact" /\ rdRes[i].op = "skip") => SkipDone(rdRes[i])

-----------------------------------------------------------------------------
(* SpecCopy: a script copies from one stream to another *)

\* the streams copied to: the writes of a class derived from Stream may be
\* short once
CopyTargets ==
    {StreamObj("MemblockStream", d, 0, <<>>, 0, 0, FALSE, TRUE, TRUE, FALSE, TRUE, <<>>) :
        d \in StreamData}
    \cup {StreamObj("NativeStream", d, 0, <<>>, 0, 0, FALSE, FALSE, TRUE, FALSE, FALSE, <<>>) :
             d \in StreamData}
    \cup {StreamObj("Stream", d, 0, <<>>, 0, 0, FALSE, FALSE, TRUE, FALSE, FALSE, sh) :
             d \in StreamData, sh \in Schedules(1)}

\* the streams copied from
CopySources ==
    {StreamObj("MemblockStream", d, 0, <<>>, 0, 0, FALSE, TRUE, TRUE, FALSE, TRUE, <<>>) :
        d \in StreamData}
    \cup {StreamObj("BufferedInStream", d, 0, <<>>, 0, 0, FALSE, TRUE, FALSE, FALSE, TRUE, <<>>) :
             d \in StreamData}
    \cup {StreamObj("NativeStream", d, 0, <<>>, 0, 0, FALSE, TRUE, FALSE, FALSE, FALSE, sh) :
             d \in StreamData, sh \in Schedules(MaxShort)}

InitCopy ==
    /\ pc = "copy"
    /\ wbuild = NativeBuild /\ rbuild = NativeBuild
    /\ out = <<>> /\ dPos = 0
    /\ IntIdle /\ ValIdle /\ GraphIdle
    /\ ThrIdle /\ ModIdle
    /\ strm \in CopyTargets
    /\ srcStrm \in CopySources
    /\ dest = <<>>
    /\ rdRes = <<>>
    /\ got = <<>>

CopyResult(size, o) ==
    <<[op |-> "copy", size |-> size, outcome |-> o.outcome, exc |-> o.exc,
       before |-> strm, after |-> o.dst, srcBefore |-> srcStrm, srcAfter |-> o.src]>>

\* strm.copy(srcStrm, size)
CallCopy ==
    /\ pc = "copy"
    /\ \E size \in -2 .. MaxData + 1 :
          /\ Len(StreamCopy(strm, srcStrm, size).dst.mb) <= MaxMb
          /\ strm' = StreamCopy(strm, srcStrm, size).dst
          /\ srcStrm' = StreamCopy(strm, srcStrm, size).src
          /\ rdRes' = CopyResult(size, StreamCopy(strm, srcStrm, size))
    /\ UNCHANGED <<dest, got>>
    /\ UNCHANGED coreVars
    /\ UNCHANGED thrVars
    /\ UNCHANGED modVars

NextCopy == CallCopy

SpecCopy == InitCopy /\ [][NextCopy]_vars

\* the next n bytes of the source are in the target, from its old position on
Copied(r, n) ==
    /\ r.after.pos = r.before.pos + n
    /\ StreamPosition(r.srcAfter) = StreamPosition(r.srcBefore) + n
    /\ Len(r.after.mb) = IF r.before.pos + n > Len(r.before.mb)
                         THEN r.before.pos + n ELSE Len(r.before.mb)
    /\ \A i \in 1 .. Len(r.after.mb) :
          r.after.mb[i] = IF i > r.before.pos /\ i <= r.before.pos + n
                          THEN r.srcBefore.mb[StreamPosition(r.srcBefore) + (i - r.before.pos)]
                          ELSE r.before.mb[i]

CopyDone(r) ==
    IF r.size < -1
    THEN /\ r.outcome = "throw" /\ r.exc = "RangeException"
         /\ r.after = r.before /\ r.srcAfter = r.srcBefore
    ELSE IF r.size = -1
    THEN r.outcome = "return" /\ Copied(r, Avail(r.srcBefore)) /\ Avail(r.srcAfter) = 0
    ELSE IF Avail(r.srcBefore) >= r.size
    THEN r.outcome = "return" /\ Copied(r, r.size)
    ELSE r.outcome = "throw" /\ r.exc = "EOFException"

\* C23: copy(s, size) with size = -1 writes every byte of s up to its end to
\* this stream, in order and once; with size >= 0 it copies exactly size
\* bytes, or throws EOFException when s ends first; with size < -1 it
\* throws RangeException and neither stream is touched.
CopyContract ==
    \A i \in DOMAIN rdRes : (pc = "copy") => CopyDone(rdRes[i])

\* everything was copied from a stream that reads short to one that writes
\* short
CopyContractWitness ==
    /\ pc = "copy"
    /\ rdRes # <<>>
    /\ rdRes[1].size = -1
    /\ rdRes[1].outcome = "return"
    /\ rdRes[1].after.pos >= rdRes[1].before.pos + MaxData
    /\ rdRes[1].before.short # <<>>

=============================================================================
